---- MODULE Spec2Model ----
(***************************************************************************)
(* Model of the URL shortener's tiered storage manager (StorageManager,    *)
(* src/storage-manager.js) and of the parts of the application layer       *)
(* (SecureURLShortener, src/unnamed/part_000) that create, delete and      *)
(* rate-limit URL records.                                                 *)
(*                                                                         *)
(* Representation of JavaScript values:                                    *)
(*   - an object is a function from field names to values (a TLA+ record), *)
(*     so that spreading ({...data, _compressed: true}) extends the domain *)
(*     and destructuring a rest pattern restricts it;                      *)
(*   - a string that the code inspects character by character (a short     *)
(*     code) is a sequence of one-character strings; a storage key is a    *)
(*     string built with \o as the template literal builds it;             *)
(*   - null is the record null, so that it can be compared with objects;   *)
(*   - a JSON text is the sequence of its <<name, value>> members.         *)
(***************************************************************************)
EXTENDS Integers, Sequences, FiniteSets, TLC

VARIABLES
    \* ---- StorageManager fields (storage-manager.js:3-11) and the stores behind them
    db,                 \* TRUE: this.db is an open connection; FALSE: this.db is null
    initialized,        \* this.initialized
    compressionEnabled, \* this.compressionEnabled
    cache,              \* this.cache: Map key -> value
    idbUrls,            \* IndexedDB object store 'urls': id -> stored object
    idbCache,           \* IndexedDB object store 'cache': key -> {key,data,timestamp,expiry}
    localStorage,       \* window.localStorage: key -> JSON text
    now,                \* Date.now()
    \* ---- observation of the last completed call
    last,               \* [op, arg, ret, tier]: the call, its argument, its result, the tier read
    saved,              \* id -> the record passed to the last saveURL of that id that resolved true
    memSaved,           \* the ids of saved whose Map entry was not cleared since that saveURL
    cacheSet,           \* key -> [data, expiry] of the last setCache of that key on this manager
    \* ---- one run of the save/read transform on one record
    codec,
    \* ---- one SecureURLShortener (part_000:3-25) and what it persists
    urls,               \* this.urls
    rateLimit,          \* this.rateLimit: [requests, maxRequests]
    idbSettings,        \* IndexedDB object store 'settings': key -> value
    calls,              \* the shortenUrl invocations suspended at an await
    gen,                \* the generateShortCode call in progress and the codes returned
    accepted,           \* the times at which a shorten request was recorded
    deleted,            \* the ids the user deleted and did not create again
    \* ---- the rest of the manager's life cycle and its calls in progress
    storageQuota,       \* this.storageQuota: null or the estimate of navigator.storage
    opens,              \* indexedDB.open calls made since the constructor or destroy()
    pending,            \* the saveURL calls suspended at the await of their put
    \* ---- the security partition and the service worker (service-worker.js)
    idbSecurity,        \* IndexedDB object store 'security': timestamp -> number of entries
    sw,                 \* the worker's view: object stores of the database, offline queue,
                        \* posts, and the Cache Storage: request URL -> response
    \* ---- the password dialog of the application (part_000:906-919, 1696-1700)
    pendingPasswordUrl  \* this.pendingPasswordUrl: <<>> while undefined, or <<i>> for
                        \* the record this.urls[i]

storeVars == <<db, initialized, compressionEnabled, cache, idbUrls, idbCache, localStorage>>

\* what the storage manager's own operations never touch
appVars == <<urls, rateLimit, idbSettings, calls, gen, accepted, deleted>>

\* what only init(), the constructor, destroy() and a suspended saveURL touch
frameVars == <<storageQuota, opens, pending>>

\* what only the maintenance operations, the service worker's handlers and the
\* password dialog touch
sideVars == <<idbSecurity, sw, pendingPasswordUrl>>

----------------------------------------------------------------------------
(* Bounds of the model and the input domains built from them.              *)

null == [isNull |-> TRUE]

Empty == [k \in {} |-> null]

\* an object store 'security' without entries
NoLogs == [t \in {} |-> 0]

\* a service worker that was handed nothing, on a database without object stores
WorkerIdle ==
    [stores |-> {}, offline_urls |-> Empty, handed |-> {}, posted |-> {}, caches |-> Empty]

\* short codes: an ordinary six-character code and an alias holding a run of blanks
CodeA == <<"a", "b", "c", "1", "2", "3">>
CodeB == <<"m", "y", " ", " ", "a">>
ShortCodes == {CodeA, CodeB}

Ids == {1, 2}

\* keys and payloads of cache entries
CacheKeys == {"scan_a", "scan_b"}
CachePayloads == {[safe |-> TRUE], [safe |-> FALSE]}

\* the clock runs from 0 to MaxTime, in units of half an hour
MaxTime == 3

\* shorten requests accepted or in progress in one behaviour
MaxShorten == 2

\* a record made by shortenUrl has id Date.now(), the millisecond of its creation:
\* the k-th creation of a behaviour, made at a millisecond of its own, has id k
AllIds == Ids \cup 1..MaxShorten

\* URL records as the application builds them (part_000:790-816), reduced to the
\* primary key, the uniquely indexed field and one mutable counter: two versions of
\* record 1 (an upsert), and record 2 with the short code of record 1 or its own
URLRecords ==
    {[id |-> 1, shortCode |-> CodeA, clicks |-> 0],
     [id |-> 1, shortCode |-> CodeA, clicks |-> 5],
     [id |-> 2, shortCode |-> CodeA, clicks |-> 0],
     [id |-> 2, shortCode |-> CodeB, clicks |-> 0]}

----------------------------------------------------------------------------
(* JSON.stringify / JSON.parse on the objects of the model.                *)

MetaFields == {"_compressed", "_originalSize", "_compressedSize"}

\* property order of a serialised record: own fields first, the fields added by
\* the spread in compressData last
FieldOrder ==
    <<"id", "shortCode", "clicks", "requests", "maxRequests", "safe",
      "scanned", "blocked", "rateLimited",
      "_compressed", "_originalSize", "_compressedSize">>

StringFields == {"shortCode"}
BooleanFields == {"_compressed", "safe"}

\* a text that is not JSON: JSON.parse throws a SyntaxError on it
NotJSON == <<<<"", 0>>>>

parses(text) == \A i \in DOMAIN text : text[i][1] # ""

JSONstringify(obj) ==
    LET present == SelectSeq(FieldOrder, LAMBDA f : f \in DOMAIN obj)
    IN  [i \in 1..Len(present) |-> <<present[i], obj[present[i]]>>]

JSONparse(text) ==
    [f \in {text[i][1] : i \in DOMAIN text} |->
        (CHOOSE m \in {text[i] : i \in DOMAIN text} : m[1] = f)[2]]

\* number of decimal digits of a non-negative integer
RECURSIVE Digits(_)
Digits(n) == IF n < 10 THEN 1 ELSE 1 + Digits(n \div 10)

\* length of the JSON text of one member value
ValueLength(f, v) ==
    IF f \in StringFields THEN Len(v) + 2
    ELSE IF f \in BooleanFields THEN (IF v THEN 4 ELSE 5)
    ELSE Digits(v)

RECURSIVE MembersLength(_, _)
MembersLength(text, i) ==
    IF i > Len(text) THEN 0
    ELSE Len(text[i][1]) + 3 + ValueLength(text[i][1], text[i][2])
         + (IF i < Len(text) THEN 1 ELSE 0) + MembersLength(text, i + 1)

\* jsonString.length
JSONLength(text) == 2 + MembersLength(text, 1)

\* characters removed by .replace(/\s+/g, ' '): every blank that follows a blank
BlankRunExcess(s) ==
    Cardinality({i \in 2..Len(s) : s[i] = " " /\ s[i - 1] = " "})

RECURSIVE WhitespaceSaved(_, _)
WhitespaceSaved(text, i) ==
    IF i > Len(text) THEN 0
    ELSE (IF text[i][1] \in StringFields THEN BlankRunExcess(text[i][2]) ELSE 0)
         + WhitespaceSaved(text, i + 1)

----------------------------------------------------------------------------
(* Data compression (storage-manager.js:501-531).                          *)

\* JSON.stringify puts no blank between members and escapes quotes and control
\* characters, so of the three replacements only /\s+/g can match, on runs of blanks
\* inside a string value; the returned object carries the data itself and the sizes.
compressData(data) ==
    LET jsonString == JSONstringify(data)
        originalSize == JSONLength(jsonString)
        compressedSize == originalSize - WhitespaceSaved(jsonString, 1)
    IN  [f \in DOMAIN data \cup MetaFields |->
            IF f = "_compressed" THEN TRUE
            ELSE IF f = "_originalSize" THEN originalSize
            ELSE IF f = "_compressedSize" THEN compressedSize
            ELSE data[f]]

isCompressed(data) ==
    /\ data # null
    /\ "_compressed" \in DOMAIN data
    /\ data["_compressed"] = TRUE

\* a destructuring that forgets the two size fields
decompressDataKeepsSizes(data) ==
    IF isCompressed(data)
    THEN [f \in DOMAIN data \ {"_compressed"} |-> data[f]]
    ELSE data

decompressData(data) ==
    IF isCompressed(data)
    THEN [f \in DOMAIN data \ MetaFields |-> data[f]]
    ELSE data

----------------------------------------------------------------------------
(* Keys and small helpers.                                                 *)

\* the Map key `url_${id}` (storage-manager.js:99, 114, 151, 175)
urlCacheKey(id) == "url_" \o ToString(id)

\* the localStorage key `${prefix}_${key}` (storage-manager.js:536)
storageKey(prefix, key) == prefix \o "_" \o ToString(key)

RECURSIVE Ascending(_)
Ascending(S) ==
    IF S = {} THEN <<>>
    ELSE LET m == CHOOSE x \in S : \A y \in S : x <= y
         IN  <<m>> \o Ascending(S \ {m})

\* the text that can follow a prefix in a key of the model
KeySuffixes == {ToString(i) : i \in AllIds} \cup CacheKeys

\* key.startsWith(prefix)
StartsWith(key, prefix) == \E s \in KeySuffixes : key = prefix \o s

\* localStorage.key(0), localStorage.key(1), ...: the enumeration order of the keys
KeyOrder == [i \in 1..Len(Ascending(AllIds)) |-> storageKey("urls", Ascending(AllIds)[i])]

\* Map.delete / removeItem / IDBObjectStore.delete
Without(f, k) == [x \in DOMAIN f \ {k} |-> f[x]]

\* what a URL operation works on: the connection, the toggle and the three tiers
Tiers == [db |-> db, compressionEnabled |-> compressionEnabled,
          idb |-> idbUrls, ls |-> localStorage, cache |-> cache]

----------------------------------------------------------------------------
(* localStorage fallback functions (storage-manager.js:533-597).           *)

\* a backup that never overwrites: a key in use sends the data to the next key
backupUnderNewKey(ls, prefix, key, data, setItemFails) ==
    IF storageKey(prefix, key) \in DOMAIN ls
    THEN (storageKey(prefix, key + 1) :> JSONstringify(data)) @@ ls
    ELSE (storageKey(prefix, key) :> JSONstringify(data)) @@ ls

backupToLocalStorage(ls, prefix, key, data, setItemFails) ==
    IF setItemFails THEN ls    \* QuotaExceededError is caught and dropped (539-542)
    ELSE (storageKey(prefix, key) :> JSONstringify(data)) @@ ls

getFromLocalStorage(ls, key) ==
    IF key \in DOMAIN ls /\ parses(ls[key]) THEN JSONparse(ls[key]) ELSE null

getAllFromLocalStorage(ls, prefix) ==
    LET keys == SelectSeq(KeyOrder, LAMBDA k : k \in DOMAIN ls /\ StartsWith(k, prefix))
    IN  [i \in 1..Len(keys) |-> getFromLocalStorage(ls, keys[i])]

removeFromLocalStorage(ls, key) == Without(ls, key)

clearLocalStorageByPrefix(ls, prefix) ==
    [k \in {x \in DOMAIN ls : ~StartsWith(x, prefix)} |-> ls[k]]

----------------------------------------------------------------------------
(* URL management (storage-manager.js:86-209). Every operator takes the    *)
(* tiers T it starts from and returns the tiers it leaves and its result.  *)

\* store.put on 'urls' is rejected with a ConstraintError when another key already
\* holds the short code (unique index, storage-manager.js:53)
putViolatesIndex(idb, data) ==
    \E k \in DOMAIN idb : k # data.id /\ idb[k].shortCode = data.shortCode

saveURL(T, urlData, putFails, setItemFails) ==
    LET compressedData == IF T.compressionEnabled THEN compressData(urlData) ELSE urlData
        rejected == T.db /\ (putFails \/ putViolatesIndex(T.idb, compressedData))
    IN  IF rejected
        THEN [ret |-> FALSE, idb |-> T.idb, ls |-> T.ls, cache |-> T.cache]
        ELSE [ret |-> TRUE,
              idb |-> IF T.db THEN (urlData.id :> compressedData) @@ T.idb ELSE T.idb,
              cache |-> (urlCacheKey(urlData.id) :> compressedData) @@ T.cache,
              ls |-> backupToLocalStorage(T.ls, "urls", urlData.id, compressedData,
                                          setItemFails)]

\* a getURL that consults the fallback store before the structured store
getURLFallbackFirst(T, id) ==
    LET cacheKey == urlCacheKey(id)
        localData == getFromLocalStorage(T.ls, storageKey("urls", id))
    IN  IF cacheKey \in DOMAIN T.cache
        THEN [ret |-> IF T.compressionEnabled THEN decompressData(T.cache[cacheKey])
                      ELSE T.cache[cacheKey],
              tier |-> "memory", path |-> <<"memory">>, cache |-> T.cache]
        ELSE IF localData # null
        THEN [ret |-> localData, tier |-> "ls", path |-> <<"memory", "ls">>,
              cache |-> (cacheKey :> localData) @@ T.cache]
        ELSE IF T.db /\ id \in DOMAIN T.idb
        THEN [ret |-> IF T.compressionEnabled THEN decompressData(T.idb[id])
                      ELSE T.idb[id],
              tier |-> "idb", path |-> <<"memory", "ls", "idb">>,
              cache |-> (cacheKey :> T.idb[id]) @@ T.cache]
        ELSE [ret |-> null, tier |-> "none", path |-> <<"memory", "ls", "idb">>,
              cache |-> T.cache]

getURL(T, id) ==
    LET cacheKey == urlCacheKey(id)
        localData == getFromLocalStorage(T.ls, storageKey("urls", id))
    IN  IF cacheKey \in DOMAIN T.cache
        THEN [ret |-> IF T.compressionEnabled THEN decompressData(T.cache[cacheKey])
                      ELSE T.cache[cacheKey],
              tier |-> "memory", path |-> <<"memory">>, cache |-> T.cache]
        ELSE IF T.db /\ id \in DOMAIN T.idb
        THEN [ret |-> IF T.compressionEnabled THEN decompressData(T.idb[id])
                      ELSE T.idb[id],
              tier |-> "idb", path |-> <<"memory", "idb">>,
              cache |-> (cacheKey :> T.idb[id]) @@ T.cache]
        ELSE IF localData # null
        THEN [ret |-> localData,
              tier |-> "ls",
              path |-> IF T.db THEN <<"memory", "idb", "ls">> ELSE <<"memory", "ls">>,
              cache |-> (cacheKey :> localData) @@ T.cache]
        ELSE [ret |-> null,
              tier |-> "none",
              path |-> IF T.db THEN <<"memory", "idb", "ls">> ELSE <<"memory", "ls">>,
              cache |-> T.cache]

getAllURLs(T) ==
    LET keys == Ascending(DOMAIN T.idb)
        all == [i \in 1..Len(keys) |-> T.idb[keys[i]]]
    IN  IF T.db /\ Len(all) > 0
        THEN [ret |-> IF T.compressionEnabled
                      THEN [i \in 1..Len(all) |-> decompressData(all[i])]
                      ELSE all,
              tier |-> "idb",
              cache |-> [k \in DOMAIN T.cache \cup {urlCacheKey(i) : i \in DOMAIN T.idb} |->
                            IF \E i \in DOMAIN T.idb : k = urlCacheKey(i)
                            THEN T.idb[CHOOSE i \in DOMAIN T.idb : k = urlCacheKey(i)]
                            ELSE T.cache[k]]]
        ELSE [ret |-> getAllFromLocalStorage(T.ls, "urls_"),
              tier |-> "ls",
              cache |-> T.cache]

deleteURL(T, id) ==
    [ret |-> TRUE,
     idb |-> IF T.db THEN Without(T.idb, id) ELSE T.idb,
     cache |-> Without(T.cache, urlCacheKey(id)),
     ls |-> removeFromLocalStorage(T.ls, storageKey("urls", id))]

clearAllURLs(T) ==
    [ret |-> TRUE,
     idb |-> IF T.db THEN Empty ELSE T.idb,
     cache |-> [k \in {x \in DOMAIN T.cache : ~StartsWith(x, "url_")} |-> T.cache[k]],
     ls |-> clearLocalStorageByPrefix(T.ls, "urls_")]

----------------------------------------------------------------------------
(* Life cycle of the manager (storage-manager.js:3-35, 599-621, 889-902).  *)

loadCacheFromLocalStorage(ls, map) ==
    LET cacheKeys == {k \in DOMAIN ls : StartsWith(k, "cache_")}
        stripped(k) == CHOOSE s \in KeySuffixes : k = "cache_" \o s
    IN  [c \in DOMAIN map \cup {stripped(k) : k \in cacheKeys} |->
            IF \E k \in cacheKeys : stripped(k) = c
            THEN getFromLocalStorage(ls, CHOOSE k \in cacheKeys : stripped(k) = c)
            ELSE map[c]]

\* new StorageManager(): a page load. The stores outlive the object.
Construct ==
    /\ db' = FALSE
    /\ initialized' = FALSE
    /\ compressionEnabled' = TRUE
    /\ cache' = Empty
    /\ last' = [op |-> "constructor"]
    /\ memSaved' = {}
    /\ UNCHANGED <<idbUrls, idbCache, localStorage, now, saved>>
    /\ cacheSet' = Empty
    /\ storageQuota' = null
    /\ opens' = 0
    /\ pending' = <<>>
    /\ UNCHANGED <<codec, appVars, sideVars>>

\* what navigator.storage answers: the API is missing, estimate() rejects, or it
\* resolves to an estimate
Estimates == {[usage |-> 1, quota |-> 2]}
QuotaOutcomes ==
    {[kind |-> "absent"], [kind |-> "fails"]} \cup [kind : {"ok"}, estimate : Estimates]

\* two variants of init(): one whose catch rethrows, one without the guard of line 14
initRethrows(M, ls, openOk, quota) ==
    IF M.initialized
    THEN [settled |-> "resolved", opened |-> "skipped", db |-> M.db,
          initialized |-> TRUE, storageQuota |-> M.storageQuota, cache |-> M.cache]
    ELSE IF ~openOk \/ quota.kind = "fails"
    THEN [settled |-> "rejected", opened |-> IF openOk THEN "ok" ELSE "failed",
          db |-> openOk, initialized |-> FALSE, storageQuota |-> M.storageQuota,
          cache |-> M.cache]
    ELSE [settled |-> "resolved", opened |-> "ok", db |-> TRUE, initialized |-> TRUE,
          storageQuota |-> IF quota.kind = "ok" THEN quota.estimate ELSE M.storageQuota,
          cache |-> loadCacheFromLocalStorage(ls, M.cache)]

initReopens(M, ls, openOk, quota) ==
    IF ~openOk
    THEN [settled |-> "resolved", opened |-> "failed", db |-> FALSE,
          initialized |-> TRUE, storageQuota |-> M.storageQuota, cache |-> M.cache]
    ELSE IF quota.kind = "fails"
    THEN [settled |-> "resolved", opened |-> "ok", db |-> TRUE, initialized |-> TRUE,
          storageQuota |-> M.storageQuota, cache |-> M.cache]
    ELSE [settled |-> "resolved", opened |-> "ok", db |-> TRUE, initialized |-> TRUE,
          storageQuota |-> IF quota.kind = "ok" THEN quota.estimate ELSE M.storageQuota,
          cache |-> loadCacheFromLocalStorage(ls, M.cache)]

\* init() on the manager M = [db, initialized, storageQuota, cache] with the fallback
\* store ls: the request of indexedDB.open succeeds (openOk) or fails, then the quota
\* query, then the rehydration of the Map; the first rejection jumps to the catch
init(M, ls, openOk, quota) ==
    IF M.initialized
    THEN [settled |-> "resolved", opened |-> "skipped", db |-> M.db,
          initialized |-> TRUE, storageQuota |-> M.storageQuota, cache |-> M.cache]
    ELSE IF ~openOk
    THEN [settled |-> "resolved", opened |-> "failed", db |-> M.db,
          initialized |-> TRUE, storageQuota |-> M.storageQuota, cache |-> M.cache]
    ELSE IF quota.kind = "fails"
    THEN [settled |-> "resolved", opened |-> "ok", db |-> TRUE, initialized |-> TRUE,
          storageQuota |-> M.storageQuota, cache |-> M.cache]
    ELSE [settled |-> "resolved", opened |-> "ok", db |-> TRUE, initialized |-> TRUE,
          storageQuota |-> IF quota.kind = "ok" THEN quota.estimate ELSE M.storageQuota,
          cache |-> loadCacheFromLocalStorage(ls, M.cache)]

Manager == [db |-> db, initialized |-> initialized, storageQuota |-> storageQuota,
            cache |-> cache]

ManagerInit(openOk, quota) ==
    LET r == init(Manager, localStorage, openOk, quota)
    IN  /\ db' = r.db
        /\ initialized' = r.initialized
        /\ storageQuota' = r.storageQuota
        /\ cache' = r.cache
        /\ opens' = IF r.opened = "skipped" THEN opens ELSE opens + 1
        /\ last' = [op |-> "init", settled |-> r.settled, opened |-> r.opened,
                    quota |-> IF r.opened = "ok" THEN quota.kind ELSE "not asked"]
        /\ UNCHANGED <<compressionEnabled, idbUrls, idbCache, localStorage, now, saved,
                       memSaved>>
        /\ UNCHANGED <<cacheSet, codec, appVars, pending, sideVars>>

\* a destroy() that clears the Map only when it closes a connection
destroyClearsWithConnection ==
    /\ db' = FALSE
    /\ cache' = IF db THEN Empty ELSE cache
    /\ initialized' = FALSE
    /\ last' = [op |-> "destroy", closed |-> db, again |-> last.op = "destroy"]
    /\ memSaved' = {}
    /\ UNCHANGED <<compressionEnabled, idbUrls, idbCache, localStorage, now, saved>>
    /\ cacheSet' = Empty
    /\ opens' = 0
    /\ UNCHANGED <<codec, appVars, storageQuota, pending, sideVars>>

\* destroy(): closed tells whether there was a connection to close, again whether
\* the call before it was a destroy() too
destroy ==
    /\ db' = FALSE
    /\ cache' = Empty
    /\ initialized' = FALSE
    /\ last' = [op |-> "destroy", closed |-> db, again |-> last.op = "destroy"]
    /\ memSaved' = {}
    /\ UNCHANGED <<compressionEnabled, idbUrls, idbCache, localStorage, now, saved>>
    /\ cacheSet' = Empty
    /\ opens' = 0
    /\ UNCHANGED <<codec, appVars, storageQuota, pending, sideVars>>

\* this.storageManager.compressionEnabled = this.settings.compressionEnabled
SetCompressionEnabled(b) ==
    /\ compressionEnabled' = b
    /\ last' = [op |-> "setCompression"]
    /\ UNCHANGED <<db, initialized, cache, idbUrls, idbCache, localStorage, now, saved,
                   memSaved>>
    /\ UNCHANGED <<cacheSet, codec, appVars, frameVars, sideVars>>

\* clearCache(): the 'cache' object store and the whole Map
clearCache ==
    /\ idbCache' = IF db THEN Empty ELSE idbCache
    /\ cache' = Empty
    /\ last' = [op |-> "clearCache", ret |-> TRUE]
    /\ memSaved' = {}
    /\ UNCHANGED <<db, initialized, compressionEnabled, idbUrls, localStorage, now, saved>>
    /\ cacheSet' = Empty
    /\ UNCHANGED <<codec, appVars, frameVars, sideVars>>

----------------------------------------------------------------------------
(* The URL operations as awaited calls.                                    *)

SaveURL(urlData, putFails, setItemFails) ==
    LET r == saveURL(Tiers, urlData, putFails, setItemFails)
    IN  /\ idbUrls' = r.idb
        /\ localStorage' = r.ls
        /\ cache' = r.cache
        /\ last' = [op |-> "saveURL", arg |-> urlData.id, ret |-> r.ret,
                    setItemThrew |-> setItemFails,
                    replaced |-> urlData.id \in DOMAIN saved]
        /\ saved' = IF r.ret THEN (urlData.id :> urlData) @@ saved ELSE saved
        /\ memSaved' = IF r.ret THEN memSaved \cup {urlData.id} ELSE memSaved
        /\ UNCHANGED <<db, initialized, compressionEnabled, idbCache, now>>
        /\ UNCHANGED <<cacheSet, codec, appVars, frameVars, sideVars>>

GetURL(id) ==
    LET r == getURL(Tiers, id)
    IN  /\ cache' = r.cache
        /\ last' = [op |-> "getURL", arg |-> id, ret |-> r.ret, tier |-> r.tier,
                    path |-> r.path]
        /\ UNCHANGED <<db, initialized, compressionEnabled, idbUrls, idbCache,
                       localStorage, now, saved, memSaved>>
        /\ UNCHANGED <<cacheSet, codec, appVars, frameVars, sideVars>>

GetAllURLs ==
    LET r == getAllURLs(Tiers)
    IN  /\ cache' = r.cache
        /\ last' = [op |-> "getAllURLs", ret |-> r.ret, tier |-> r.tier]
        /\ UNCHANGED <<db, initialized, compressionEnabled, idbUrls, idbCache,
                       localStorage, now, saved, memSaved>>
        /\ UNCHANGED <<cacheSet, codec, appVars, frameVars, sideVars>>

DeleteURL(id) ==
    LET r == deleteURL(Tiers, id)
    IN  /\ idbUrls' = r.idb
        /\ localStorage' = r.ls
        /\ cache' = r.cache
        /\ last' = [op |-> "deleteURL", arg |-> id, ret |-> r.ret]
        /\ saved' = Without(saved, id)
        /\ memSaved' = memSaved \ {id}
        /\ UNCHANGED <<db, initialized, compressionEnabled, idbCache, now>>
        /\ UNCHANGED <<cacheSet, codec, appVars, frameVars, sideVars>>

ClearAllURLs ==
    LET r == clearAllURLs(Tiers)
    IN  /\ idbUrls' = r.idb
        /\ localStorage' = r.ls
        /\ cache' = r.cache
        /\ last' = [op |-> "clearAllURLs", ret |-> r.ret]
        /\ saved' = Empty
        /\ memSaved' = {}
        /\ UNCHANGED <<db, initialized, compressionEnabled, idbCache, now>>
        /\ UNCHANGED <<cacheSet, codec, appVars, frameVars, sideVars>>

----------------------------------------------------------------------------
(* The application object (part_000:3-25).                                 *)

\* maxRequests of a rate limit that was never stored (part_000:16, 302)
DefaultMaxRequests == 10

\* no shortenUrl invocation is suspended
NoCalls == <<>>

\* no code: the empty string
NoCode == <<>>

\* no generateShortCode call was made yet
GenIdle == [pc |-> "idle", result |-> NoCode, redrawn |-> FALSE, returned |-> NoCode,
            previous |-> NoCode]

\* new SecureURLShortener(): the fields of the constructor, nothing persisted yet
AppConstructed ==
    /\ urls = <<>>
    /\ rateLimit = [requests |-> <<>>, maxRequests |-> DefaultMaxRequests]
    /\ idbSettings = Empty
    /\ calls = NoCalls
    /\ gen = GenIdle
    /\ accepted = <<>>
    /\ deleted = {}

vars == <<db, initialized, compressionEnabled, cache, idbUrls, idbCache, localStorage,
          now, last, saved, memSaved, cacheSet, codec, urls, rateLimit, idbSettings,
          calls, gen, accepted, deleted, storageQuota, opens, pending,
          idbSecurity, sw, pendingPasswordUrl>>

Init ==
    /\ db = FALSE
    /\ initialized = FALSE
    /\ compressionEnabled = TRUE
    /\ cache = Empty
    /\ idbUrls = Empty
    /\ idbCache = Empty
    /\ localStorage = Empty
    /\ now = 0
    /\ last = [op |-> "constructor"]
    /\ saved = Empty
    /\ memSaved = {}
    /\ cacheSet = Empty
    /\ codec = null
    /\ storageQuota = null /\ opens = 0 /\ pending = <<>>
    /\ idbSecurity = NoLogs /\ sw = WorkerIdle /\ pendingPasswordUrl = <<>>
    /\ AppConstructed

Next ==
    \/ Construct
    \/ \E openOk \in BOOLEAN : ManagerInit(openOk, [kind |-> "absent"])
    \/ destroy
    \/ \E b \in BOOLEAN : SetCompressionEnabled(b)
    \/ clearCache
    \/ \E r \in URLRecords : SaveURL(r, FALSE, FALSE)
    \/ \E id \in Ids : GetURL(id)
    \/ GetAllURLs
    \/ \E id \in Ids : DeleteURL(id)
    \/ ClearAllURLs

Spec == Init /\ [][Next]_vars

----------------------------------------------------------------------------
(* Claims about the awaited URL operations, checked under Spec.            *)

\* C1: once saveURL(r) has resolved true, and until r.id is written or deleted again
\* (and the Map has not been emptied in between), getURL(r.id) returns a record equal
\* to r field for field and is served by the memory cache alone.
C1_WriteThenRead ==
    (last.op = "getURL" /\ last.arg \in memSaved)
        => (last.ret = saved[last.arg] /\ last.path = <<"memory">>)

\* C3: while the structured store is unavailable (db is null), saveURL resolves true,
\* getURL returns the saved record and getAllURLs returns exactly the saved and not
\* deleted records, whether or not the memory cache still holds them.
C3_TierFallback ==
    ~db =>
        /\ (last.op = "saveURL" => last.ret = TRUE)
        /\ (last.op = "getURL" /\ last.arg \in DOMAIN saved
                => last.ret = saved[last.arg])
        /\ (last.op = "getAllURLs"
                => {last.ret[i] : i \in DOMAIN last.ret} = {saved[i] : i \in DOMAIN saved})

\* C5: whatever the toggle was at each saveURL and is at the read, and whichever tier
\* serves it, getURL and getAllURLs return each record exactly as it was passed to
\* saveURL, without the marker and size fields.
C5_MixedCompression ==
    /\ (last.op = "getURL" /\ last.ret # null /\ last.arg \in DOMAIN saved
            => last.ret = saved[last.arg])
    /\ (last.op = "getAllURLs"
            => \A i \in DOMAIN last.ret :
                   last.ret[i].id \in DOMAIN saved => last.ret[i] = saved[last.ret[i].id])

----------------------------------------------------------------------------
(* The transform a record goes through in saveURL and getURL, on its own:  *)
(* SpecCodec draws a record and a value of the toggle, applies the save    *)
(* side (storage-manager.js:90-91) and then the read side (116-117).       *)

MaxClicks == 10

\* URL records with every id, short code and click count of the bounds
CodecRecords == [id : Ids, shortCode : ShortCodes, clicks : 0..MaxClicks]

frozenStore == <<db, initialized, cache, idbUrls, idbCache, localStorage, now, last,
                 saved, memSaved, cacheSet, frameVars, sideVars>>

CodecInit ==
    /\ compressionEnabled \in BOOLEAN
    /\ codec \in [stage : {"input"}, input : CodecRecords, stored : {null},
                  output : {null}]
    /\ db = FALSE /\ initialized = FALSE
    /\ cache = Empty /\ idbUrls = Empty /\ idbCache = Empty /\ localStorage = Empty
    /\ now = 0
    /\ last = [op |-> "constructor"]
    /\ saved = Empty /\ memSaved = {} /\ cacheSet = Empty
    /\ storageQuota = null /\ opens = 0 /\ pending = <<>>
    /\ idbSecurity = NoLogs /\ sw = WorkerIdle /\ pendingPasswordUrl = <<>>
    /\ AppConstructed

\* const compressedData = this.compressionEnabled ? this.compressData(urlData) : urlData
CodecSave ==
    /\ codec.stage = "input"
    /\ codec' = [codec EXCEPT !.stage = "stored",
                              !.stored = IF compressionEnabled
                                         THEN compressData(codec.input)
                                         ELSE codec.input]
    /\ UNCHANGED <<compressionEnabled, frozenStore, appVars>>

\* return this.compressionEnabled ? this.decompressData(cached) : cached
CodecRead ==
    /\ codec.stage = "stored"
    /\ codec' = [codec EXCEPT !.stage = "read",
                              !.output = IF compressionEnabled
                                         THEN decompressData(codec.stored)
                                         ELSE codec.stored]
    /\ UNCHANGED <<compressionEnabled, frozenStore, appVars>>

CodecNext == CodecSave \/ CodecRead

SpecCodec == CodecInit /\ [][CodecNext]_vars

\* C4: with the toggle unchanged between the two sides, the record read equals the
\* record saved field for field (same fields, same values, none of _compressed,
\* _originalSize, _compressedSize); with compression on the stored object is the
\* record plus exactly these three fields, and with compression off it is the record.
C4_RoundTrip ==
    /\ (codec.stage = "read" => codec.output = codec.input)
    /\ (codec.stage # "input" /\ compressionEnabled
            => /\ DOMAIN codec.stored = DOMAIN codec.input \cup MetaFields
               /\ \A f \in DOMAIN codec.input : codec.stored[f] = codec.input[f])
    /\ (codec.stage # "input" /\ ~compressionEnabled => codec.stored = codec.input)

\* C4: a record whose short code holds a run of blanks was compressed (the marker is
\* set and the compressed size is below the original size) and read back
C4_Witness ==
    /\ codec.stage = "read"
    /\ compressionEnabled
    /\ isCompressed(codec.stored)
    /\ codec.stored["_compressedSize"] < codec.stored["_originalSize"]
    /\ codec.input.clicks = MaxClicks

----------------------------------------------------------------------------
(* Cache management (storage-manager.js:368-460): SpecCache runs setCache, *)
(* getCache, clearExpiredCache and clearCache while the clock advances.    *)

MaxTTL == 2

\* the two tiers a cache operation works on
CacheTiers == [idb |-> idbCache, cache |-> cache]

setCache(C, key, data, ttl) ==
    LET cacheData == [key |-> key, data |-> data, timestamp |-> now, expiry |-> now + ttl]
    IN  [ret |-> TRUE,
         idb |-> IF db THEN (key :> cacheData) @@ C.idb ELSE C.idb,
         cache |-> (key :> data) @@ C.cache]

getCache(C, key) ==
    IF key \in DOMAIN C.cache
    THEN [ret |-> C.cache[key], idb |-> C.idb, cache |-> C.cache]
    ELSE IF db /\ key \in DOMAIN C.idb /\ C.idb[key].expiry > now
    THEN [ret |-> C.idb[key].data, idb |-> C.idb,
          cache |-> (key :> C.idb[key].data) @@ C.cache]
    ELSE IF db /\ key \in DOMAIN C.idb
    THEN [ret |-> null, idb |-> Without(C.idb, key), cache |-> C.cache]
    ELSE [ret |-> null, idb |-> C.idb, cache |-> C.cache]

\* the value of a `return;` and of a missing property
undefined == [isUndefined |-> TRUE]

\* the cursor over index 'expiry' with IDBKeyRange.upperBound(now) deletes what it visits
\* and counts it; without a database the method returns at line 418, with no value
clearExpiredCache(C) ==
    IF ~db THEN [ret |-> undefined, idb |-> C.idb]
    ELSE LET visited == {x \in DOMAIN C.idb : C.idb[x].expiry <= now}
         IN  [ret |-> [number |-> Cardinality(visited)],
              idb |-> [k \in DOMAIN C.idb \ visited |-> C.idb[k]]]

SetCache(key, data, ttl) ==
    LET r == setCache(CacheTiers, key, data, ttl)
    IN  /\ idbCache' = r.idb
        /\ cache' = r.cache
        /\ last' = [op |-> "setCache", arg |-> key, ret |-> r.ret, at |-> now]
        /\ cacheSet' = (key :> [data |-> data, expiry |-> now + ttl]) @@ cacheSet
        /\ UNCHANGED <<db, initialized, compressionEnabled, idbUrls, localStorage, now,
                       saved, memSaved, codec, appVars, frameVars, sideVars>>

GetCache(key) ==
    LET r == getCache(CacheTiers, key)
    IN  /\ idbCache' = r.idb
        /\ cache' = r.cache
        /\ last' = [op |-> "getCache", arg |-> key, ret |-> r.ret, at |-> now]
        /\ UNCHANGED <<db, initialized, compressionEnabled, idbUrls, localStorage, now,
                       saved, memSaved, cacheSet, codec, appVars, frameVars, sideVars>>

\* how an async method whose body is wrapped in try/catch settles when the request it
\* made on the database failed: a promise it awaited rejects inside the try and the
\* catch turns that into the method's result; a promise it returned without awaiting
\* it has left the try when it rejects, and the method's own promise rejects with it
settle(handoff, requestFailed) ==
    IF requestFailed /\ handoff = "returned" THEN "rejected" ELSE "resolved"

\* clearExpiredCache(): the cursor request succeeds or fails (requestFails, only with
\* an open database); the promise around it is returned, not awaited (line 427)
ClearExpiredCache(requestFails) ==
    /\ requestFails => db
    /\ idbCache' = IF requestFails THEN idbCache ELSE clearExpiredCache(CacheTiers).idb
    /\ last' = IF requestFails
               THEN [op |-> "clearExpiredCache", settled |-> settle("returned", TRUE)]
               ELSE [op |-> "clearExpiredCache", settled |-> settle("returned", FALSE),
                     ret |-> clearExpiredCache(CacheTiers).ret]
    /\ UNCHANGED <<db, initialized, compressionEnabled, cache, idbUrls, localStorage, now,
                   saved, memSaved, cacheSet, codec, appVars, frameVars, sideVars>>

\* the clock advances by one unit
Tick ==
    /\ now < MaxTime
    /\ now' = now + 1
    /\ UNCHANGED <<storeVars, last, saved, memSaved, cacheSet, codec, appVars, frameVars, sideVars>>

CacheNext ==
    \/ Construct
    \/ \E openOk \in BOOLEAN : ManagerInit(openOk, [kind |-> "absent"])
    \/ \E k \in CacheKeys, d \in CachePayloads, ttl \in 1..MaxTTL : SetCache(k, d, ttl)
    \/ \E k \in CacheKeys : GetCache(k)
    \/ ClearExpiredCache(FALSE)
    \/ clearCache
    \/ Tick

SpecCache == Init /\ [][CacheNext]_vars

\* C2: a getCache(k) made on the manager that did setCache(k, d, t) at time T, with no
\* clearCache in between, returns d when made before T+t; made at or after T+t it
\* returns null and leaves k in neither the Map nor the 'cache' object store.
C2_Expiry ==
    (last.op = "getCache" /\ last.arg \in DOMAIN cacheSet)
        => IF last.at < cacheSet[last.arg].expiry
           THEN last.ret = cacheSet[last.arg].data
           ELSE /\ last.ret = null
                /\ last.arg \notin DOMAIN cache
                /\ last.arg \notin DOMAIN idbCache

----------------------------------------------------------------------------
(* generateShortCode (part_000:1271-1284). SpecGen starts from a list of   *)
(* records and runs calls of the generator one character at a time.        *)

\* const chars = 'abc...XYZ0123456789'
chars ==
    <<"a", "b", "c", "d", "e", "f", "g", "h", "i", "j", "k", "l", "m",
      "n", "o", "p", "q", "r", "s", "t", "u", "v", "w", "x", "y", "z",
      "A", "B", "C", "D", "E", "F", "G", "H", "I", "J", "K", "L", "M",
      "N", "O", "P", "Q", "R", "S", "T", "U", "V", "W", "X", "Y", "Z",
      "0", "1", "2", "3", "4", "5", "6", "7", "8", "9">>

\* the loop bound of the generator: for (let i = 0; i < 6; i++)
CodeLength == 6

\* chars.charAt(i), i counted from 0
charAt(i) == chars[i + 1]

\* the values of Math.floor(Math.random() * chars.length) the model draws: the first
\* and the last index
DrawIndices == {0, Len(chars) - 1}

AllFirst == [i \in 1..CodeLength |-> charAt(0)]
AllLast == [i \in 1..CodeLength |-> charAt(Len(chars) - 1)]

\* the lists the generator is run against: empty, one generated code, two generated
\* codes, a custom alias
GenPresets ==
    {<<>>,
     <<[id |-> 1, shortCode |-> AllFirst, clicks |-> 0]>>,
     <<[id |-> 1, shortCode |-> AllLast, clicks |-> 0],
       [id |-> 2, shortCode |-> AllFirst, clicks |-> 0]>>,
     <<[id |-> 1, shortCode |-> CodeB, clicks |-> 0]>>}

\* a check that looks at the first record only
codeInUseFirstOnly(list, code) == list # <<>> /\ list[1].shortCode = code

\* this.urls.some(url => url.shortCode === result)
codeInUse(list, code) == \E i \in DOMAIN list : list[i].shortCode = code

GenInit ==
    /\ urls \in GenPresets
    /\ rateLimit = [requests |-> <<>>, maxRequests |-> DefaultMaxRequests]
    /\ idbSettings = Empty /\ calls = NoCalls /\ gen = GenIdle
    /\ accepted = <<>> /\ deleted = {}
    /\ db = FALSE /\ initialized = FALSE /\ compressionEnabled = TRUE
    /\ cache = Empty /\ idbUrls = Empty /\ idbCache = Empty /\ localStorage = Empty
    /\ now = 0
    /\ last = [op |-> "constructor"]
    /\ saved = Empty /\ memSaved = {} /\ cacheSet = Empty /\ codec = null
    /\ storageQuota = null /\ opens = 0 /\ pending = <<>>
    /\ idbSecurity = NoLogs /\ sw = WorkerIdle /\ pendingPasswordUrl = <<>>

genFrame == <<storeVars, now, last, saved, memSaved, cacheSet, codec, urls, rateLimit,
              idbSettings, calls, accepted, deleted, frameVars, sideVars>>

\* a call from outside: let result = ''
GenCall ==
    /\ gen.pc = "idle"
    /\ gen' = [pc |-> "loop", result |-> NoCode, redrawn |-> FALSE, returned |-> NoCode,
               previous |-> gen.returned]
    /\ UNCHANGED genFrame

\* an iteration with a Math.random() that returns 0 at every call
GenDrawAlwaysFirst(i) ==
    /\ gen.pc = "loop"
    /\ Len(gen.result) < CodeLength
    /\ gen' = [gen EXCEPT !.result = Append(gen.result, charAt(0))]
    /\ UNCHANGED genFrame

\* one iteration: result += chars.charAt(Math.floor(Math.random() * chars.length))
GenDraw(i) ==
    /\ gen.pc = "loop"
    /\ Len(gen.result) < CodeLength
    /\ gen' = [gen EXCEPT !.result = Append(gen.result, charAt(i))]
    /\ UNCHANGED genFrame

\* after the loop: a code in use starts the function again, any other is returned
GenCheck ==
    /\ gen.pc = "loop"
    /\ Len(gen.result) = CodeLength
    /\ gen' = IF codeInUse(urls, gen.result)
              THEN [gen EXCEPT !.result = NoCode, !.redrawn = TRUE]
              ELSE [gen EXCEPT !.pc = "idle", !.returned = gen.result]
    /\ UNCHANGED genFrame

GenNext ==
    \/ GenCall
    \/ \E i \in DrawIndices : GenDraw(i)
    \/ GenCheck

SpecGen == GenInit /\ [][GenNext]_vars

\* C8: every code a call returns has six characters, all of the 62-character
\* alphabet, and is the short code of no record of the list; a call that drew a code
\* in use drew again instead of returning it.
C8_GeneratedCodeIsFresh ==
    gen.returned # NoCode
        => /\ Len(gen.returned) = 6
           /\ Len(chars) = 62
           /\ \A i \in DOMAIN gen.returned : \E j \in DOMAIN chars : gen.returned[i] = chars[j]
           /\ \A k \in DOMAIN urls : urls[k].shortCode # gen.returned

\* C8: a call drew a code in use, drew again and returned, against a list of two records
C8_Witness ==
    /\ gen.returned # NoCode
    /\ gen.redrawn
    /\ Len(urls) = 2

\* C9: the code a call returns differs from the code the call before it returned
C9_SuccessiveCallsDiffer ==
    (gen.returned # NoCode /\ gen.previous # NoCode) => gen.returned # gen.previous

----------------------------------------------------------------------------
(* The application layer (part_000). SpecApp starts from an initialised    *)
(* application and runs shortenUrl in two steps, before and after its      *)
(* awaited malware scan, deleteHistoryItem, clearHistory and a page load.  *)
(* The form fields are valid; the Map entries of settings are left out:    *)
(* getSetting reads them only in init(), on a Map that is still empty.     *)

\* maxRequests of the rate limit found in storage when the application starts
MaxRequests == 1

\* shortenUrl invocations suspended at the same time
MaxOverlap == 2

\* 60 * 60 * 1000 ms in units of the clock, a unit being half an hour
Hour == 2

\* customAlias: none, or an alias
Aliases == {NoCode, CodeB}

\* the codes generateShortCode is taken to draw
GeneratedCodes == {AllFirst, AllLast}

StoredRateLimit == [requests |-> <<>>, maxRequests |-> MaxRequests]

\* this.rateLimit.requests.filter(time => time > hourAgo) at time t
recent(requests, t) == SelectSeq(requests, LAMBDA time : time > t - Hour)

isAliasUsed(list, alias) == \E i \in DOMAIN list : list[i].shortCode = alias

\* what generateShortCode() can return against a list
generateShortCode(list) == {c \in GeneratedCodes : ~codeInUse(list, c)}

\* the localStorage key `setting_${key}`
settingKey(key) == "setting_" \o key

saveSetting(T, settings, key, value) ==
    [idb |-> IF T.db
             THEN (key :> [key |-> key, value |-> value, timestamp |-> now]) @@ settings
             ELSE settings,
     ls |-> (settingKey(key) :> JSONstringify(value)) @@ T.ls]

getSetting(T, settings, key, defaultValue) ==
    IF settingKey(key) \in DOMAIN T.cache THEN T.cache[settingKey(key)]
    ELSE IF T.db /\ key \in DOMAIN settings THEN settings[key].value
    ELSE IF settingKey(key) \in DOMAIN T.ls THEN JSONparse(T.ls[settingKey(key)])
    ELSE defaultValue

\* for (const url of this.urls) await this.storageManager.saveURL(url)
RECURSIVE saveUrlsFrom(_, _, _)
saveUrlsFrom(T, list, i) ==
    IF i > Len(list) THEN T
    ELSE LET r == saveURL(T, list[i], FALSE, FALSE)
         IN  saveUrlsFrom([T EXCEPT !.idb = r.idb, !.ls = r.ls, !.cache = r.cache],
                          list, i + 1)

saveUrls(T, list) == saveUrlsFrom(T, list, 1)

\* the state after init() on a storage that holds nothing but the rate limit
AppStarted ==
    /\ db \in BOOLEAN
    /\ initialized = TRUE
    /\ compressionEnabled = TRUE
    /\ cache = Empty /\ idbUrls = Empty /\ idbCache = Empty
    /\ localStorage = (settingKey("rateLimit") :> JSONstringify(StoredRateLimit))
    /\ idbSettings = ("rateLimit" :> [key |-> "rateLimit", value |-> StoredRateLimit,
                                      timestamp |-> 0])
    /\ now = 1
    /\ urls = <<>>
    /\ rateLimit = StoredRateLimit
    /\ calls = NoCalls
    /\ gen = GenIdle
    /\ accepted = <<>>
    /\ deleted = {}
    /\ last = [op |-> "init"]
    /\ saved = Empty /\ memSaved = {} /\ cacheSet = Empty /\ codec = null
    /\ storageQuota = null /\ opens = 1 /\ pending = <<>>
    /\ idbSecurity = NoLogs /\ sw = WorkerIdle /\ pendingPasswordUrl = <<>>

managerFrame == <<initialized, idbCache, saved, memSaved, cacheSet, codec, gen, frameVars, sideVars>>

\* shortenUrl up to its first await (part_000:710-765): the rate-limit check, which
\* also drops the old requests, and the alias check
ShortenBegin(customAlias) ==
    LET requests == recent(rateLimit.requests, now)
    IN  /\ Len(accepted) + Len(calls) < MaxShorten
        /\ Len(calls) < MaxOverlap
        /\ rateLimit' = [rateLimit EXCEPT !.requests = requests]
        /\ IF Len(requests) >= rateLimit.maxRequests
           THEN /\ last' = [op |-> "shortenUrl", ret |-> "rate limit exceeded"]
                /\ calls' = calls
           ELSE IF customAlias # NoCode /\ isAliasUsed(urls, customAlias)
           THEN /\ last' = [op |-> "shortenUrl", ret |-> "alias in use"]
                /\ calls' = calls
           ELSE /\ last' = [op |-> "shortenUrl", ret |-> "scanning"]
                /\ calls' = Append(calls, [customAlias |-> customAlias])
        /\ UNCHANGED <<db, compressionEnabled, cache, idbUrls, localStorage, now, urls,
                       idbSettings, accepted, deleted, managerFrame>>

\* shortenUrl from the scan result to its end (part_000:765-833): recordRequest with
\* saveRateLimit, the short code, the record, push and saveUrls
ShortenFinish(i, safe) ==
    /\ i \in DOMAIN calls
    /\ calls' = SubSeq(calls, 1, i - 1) \o SubSeq(calls, i + 1, Len(calls))
    /\ IF ~safe
       THEN /\ last' = [op |-> "shortenUrl", ret |-> "blocked"]
            /\ UNCHANGED <<cache, idbUrls, localStorage, urls, rateLimit, idbSettings,
                           accepted, deleted>>
       ELSE \E shortCode \in IF calls[i].customAlias # NoCode
                              THEN {calls[i].customAlias}
                              ELSE generateShortCode(urls) :
                LET recorded == [rateLimit EXCEPT !.requests = Append(@, now)]
                    setting == saveSetting(Tiers, idbSettings, "rateLimit", recorded)
                    urlData == [id |-> Len(accepted) + 1, shortCode |-> shortCode,
                                clicks |-> 0]
                    T == saveUrls([Tiers EXCEPT !.ls = setting.ls], Append(urls, urlData))
                IN  /\ rateLimit' = recorded
                    /\ idbSettings' = setting.idb
                    /\ urls' = Append(urls, urlData)
                    /\ idbUrls' = T.idb
                    /\ localStorage' = T.ls
                    /\ cache' = T.cache
                    /\ accepted' = Append(accepted, now)
                    /\ deleted' = deleted
                    /\ last' = [op |-> "shortenUrl", ret |-> "created"]
    /\ UNCHANGED <<db, compressionEnabled, now, managerFrame>>

\* deleteHistoryItem(id), confirmed (part_000:1580-1587)
DeleteHistoryItem(id) ==
    LET kept == SelectSeq(urls, LAMBDA url : url.id # id)
        T == saveUrls(Tiers, kept)
    IN  /\ \E k \in DOMAIN urls : urls[k].id = id
        /\ urls' = kept
        /\ idbUrls' = T.idb
        /\ localStorage' = T.ls
        /\ cache' = T.cache
        /\ deleted' = deleted \cup {id}
        /\ last' = [op |-> "deleteHistoryItem", arg |-> id]
        /\ UNCHANGED <<db, compressionEnabled, now, rateLimit, idbSettings, calls,
                       accepted, managerFrame>>

\* clearHistory(), confirmed (part_000:1589-1596)
ClearHistory ==
    LET T == saveUrls(Tiers, <<>>)
    IN  /\ urls' = <<>>
        /\ idbUrls' = T.idb
        /\ localStorage' = T.ls
        /\ cache' = T.cache
        /\ deleted' = deleted \cup {urls[k].id : k \in DOMAIN urls}
        /\ last' = [op |-> "clearHistory"]
        /\ UNCHANGED <<db, compressionEnabled, now, rateLimit, idbSettings, calls,
                       accepted, managerFrame>>

\* a page load: both constructors and init() (part_000:27-73), which opens the
\* database, loads the list with the toggle of the constructor and then the rate limit
AppRestart(openOk) ==
    LET T == [db |-> openOk, compressionEnabled |-> TRUE, idb |-> idbUrls,
              ls |-> localStorage,
              cache |-> IF openOk THEN loadCacheFromLocalStorage(localStorage, Empty)
                        ELSE Empty]
        loaded == getAllURLs(T)
        rateLimitData == getSetting(T, idbSettings, "rateLimit",
                                    [requests |-> <<>>, maxRequests |-> DefaultMaxRequests])
    IN  /\ db' = openOk
        /\ initialized' = TRUE
        /\ compressionEnabled' = TRUE
        /\ cache' = loaded.cache
        /\ urls' = loaded.ret
        /\ rateLimit' = [rateLimitData EXCEPT !.requests = recent(@, now)]
        /\ calls' = NoCalls
        /\ gen' = GenIdle
        /\ cacheSet' = Empty
        /\ memSaved' = {}
        /\ last' = [op |-> "init"]
        /\ UNCHANGED <<idbUrls, idbCache, localStorage, idbSettings, now, accepted,
                       deleted, saved, codec, frameVars, sideVars>>

AppNext ==
    \/ \E customAlias \in Aliases : ShortenBegin(customAlias)
    \/ \E i \in 1..MaxOverlap, safe \in BOOLEAN : ShortenFinish(i, safe)
    \/ \E id \in 1..MaxShorten : DeleteHistoryItem(id)
    \/ ClearHistory
    \/ \E openOk \in BOOLEAN : AppRestart(openOk)
    \/ Tick

SpecApp == AppStarted /\ [][AppNext]_vars

\* the short codes of a list of records are pairwise different
distinctShortCodes(list) ==
    \A i, j \in DOMAIN list : i # j => list[i].shortCode # list[j].shortCode

\* C6: once deleteHistoryItem or clearHistory has completed, no deleted record is left
\* in the 'urls' object store, in localStorage or in the Map, and the list that a
\* later page load reads from storage holds no deleted record.
C6_DeletionDestroys ==
    /\ (last.op \in {"deleteHistoryItem", "clearHistory"}
            => \A id \in deleted :
                   /\ id \notin DOMAIN idbUrls
                   /\ storageKey("urls", id) \notin DOMAIN localStorage
                   /\ urlCacheKey(id) \notin DOMAIN cache)
    /\ (last.op = "init" => \A k \in DOMAIN urls : urls[k].id \notin deleted)

\* C7: no two records of this.urls, of the 'urls' object store or of the urls_ keys of
\* localStorage have the same short code.
C7_UniqueShortCodes ==
    /\ distinctShortCodes(urls)
    /\ distinctShortCodes([i \in 1..Len(Ascending(DOMAIN idbUrls)) |->
                               idbUrls[Ascending(DOMAIN idbUrls)[i]]])
    /\ distinctShortCodes(getAllFromLocalStorage(localStorage, "urls_"))

\* C10: in every window of one hour at most maxRequests shorten requests were
\* accepted (recorded and turned into a record).
C10_RateLimit ==
    \A t \in 1..MaxTime :
        Cardinality({k \in DOMAIN accepted : accepted[k] > t - Hour /\ accepted[k] <= t})
            <= rateLimit.maxRequests

----------------------------------------------------------------------------
(* Initialisation (storage-manager.js:13-35): SpecInit constructs, starts  *)
(* and destroys a manager over a fallback store that already holds cache   *)
(* entries, with every outcome of indexedDB.open and of the quota query.   *)

\* fallback stores left by an earlier session: entries under the cache_ prefix, one of
\* them not JSON
PersistedStores ==
    {Empty,
     ("cache_scan_a" :> JSONstringify([safe |-> TRUE])),
     ("cache_scan_a" :> JSONstringify([safe |-> FALSE]))
        @@ ("cache_scan_b" :> JSONstringify([safe |-> TRUE])),
     ("cache_scan_a" :> NotJSON) @@ ("cache_scan_b" :> JSONstringify([safe |-> FALSE]))}

BootInit ==
    /\ db = FALSE /\ initialized = FALSE /\ compressionEnabled = TRUE
    /\ cache = Empty /\ idbUrls = Empty /\ idbCache = Empty
    /\ localStorage \in PersistedStores
    /\ now = 0
    /\ last = [op |-> "constructor"]
    /\ saved = Empty /\ memSaved = {} /\ cacheSet = Empty /\ codec = null
    /\ storageQuota = null /\ opens = 0 /\ pending = <<>>
    /\ idbSecurity = NoLogs /\ sw = WorkerIdle /\ pendingPasswordUrl = <<>>
    /\ AppConstructed

BootNext ==
    \/ Construct
    \/ \E openOk \in BOOLEAN, quota \in QuotaOutcomes : ManagerInit(openOk, quota)
    \/ destroy
    \/ \E k \in CacheKeys, d \in CachePayloads : SetCache(k, d, MaxTTL)
    \/ \E k \in CacheKeys : GetCache(k)
    \/ clearCache

SpecInit == BootInit /\ [][BootNext]_vars

\* C14: init() never fails. Whatever indexedDB.open and the quota query answer, the call
\* resolves, initialized is true afterwards, and when the open failed db is null.
C14_InitNeverFails ==
    last.op = "init" =>
        /\ last.settled = "resolved"
        /\ initialized
        /\ (last.opened = "failed" => ~db)

\* an init() whose open failed has resolved and left the manager in fallback mode
C14_Witness ==
    /\ last.op = "init" /\ last.opened = "failed"
    /\ initialized /\ ~db

\* the cache_ entries of a fallback store that parse, as key -> value
rehydrated(ls) ==
    [k \in {c \in CacheKeys : "cache_" \o c \in DOMAIN ls
                                 /\ parses(ls["cache_" \o c])} |->
        JSONparse(ls["cache_" \o k])]

\* C15: after an init() that ran (the manager was not initialized before), every
\* fallback-store entry cache_<k> that parses to v is in the Map as k -> v, whether
\* the open succeeded or failed.
C15_Rehydration ==
    (last.op = "init" /\ last.opened # "skipped") =>
        \A k \in DOMAIN rehydrated(localStorage) :
            k \in DOMAIN cache /\ cache[k] = rehydrated(localStorage)[k]

\* C16: init() on an initialized manager changes neither db, nor the Map, nor the quota
\* estimate, nor opens the database, and the database is opened at most once between
\* the constructor or destroy() and the next destroy().
C16_InitIdempotent ==
    /\ [](opens <= 1)
    /\ [][(last'.op = "init" /\ initialized)
            => (db' = db /\ cache' = cache /\ storageQuota' = storageQuota
                /\ opens' = opens /\ last'.opened = "skipped")]_vars

\* a second init() was made on an initialized manager whose Map differs from what a
\* rehydration would produce
C16_Witness ==
    /\ last.op = "init" /\ last.opened = "skipped" /\ opens = 1
    /\ DOMAIN rehydrated(localStorage) # {}
    /\ cache = Empty

----------------------------------------------------------------------------
(* saveURL step by step (storage-manager.js:87-109): with an open database *)
(* the call is suspended at the await of its put (line 95) and other calls *)
(* run before it resumes; with db null it runs to its end in one piece.    *)
(* SpecWrite lets the put and localStorage.setItem fail.                   *)

\* saveURL calls suspended at the same time
MaxPending == 2

\* saveURL(urlData) up to the await of line 95: the data is compressed with the toggle
\* of this moment and the put is requested
SaveBegin(urlData) ==
    /\ db
    /\ Len(pending) < MaxPending
    /\ pending' = Append(pending, [urlData |-> urlData,
                                   compressionEnabled |-> compressionEnabled])
    /\ last' = [op |-> "saveURL called", arg |-> urlData.id]
    /\ UNCHANGED <<storeVars, now, saved, memSaved, cacheSet, codec, appVars,
                   storageQuota, opens, sideVars>>

\* the oldest requested put completes or fails (transactions on one object store
\* finish in the order of their creation) and its saveURL runs to its end
SaveSettle(putFails, setItemFails) ==
    /\ pending # <<>>
    /\ LET p == Head(pending)
           r == saveURL([Tiers EXCEPT !.db = TRUE,
                                      !.compressionEnabled = p.compressionEnabled],
                        p.urlData, putFails, setItemFails)
       IN  /\ idbUrls' = r.idb
           /\ localStorage' = r.ls
           /\ cache' = r.cache
           /\ last' = [op |-> "saveURL", arg |-> p.urlData.id, ret |-> r.ret,
                       setItemThrew |-> r.ret /\ setItemFails]
           /\ saved' = IF r.ret THEN (p.urlData.id :> p.urlData) @@ saved ELSE saved
           /\ memSaved' = IF r.ret THEN memSaved \cup {p.urlData.id} ELSE memSaved
    /\ pending' = Tail(pending)
    /\ UNCHANGED <<db, initialized, compressionEnabled, idbCache, now, cacheSet, codec,
                   appVars, storageQuota, opens, sideVars>>

\* an initialized manager, in normal mode or in fallback mode, on empty stores
WriteInit ==
    /\ db \in BOOLEAN /\ initialized = TRUE /\ compressionEnabled = TRUE
    /\ cache = Empty /\ idbUrls = Empty /\ idbCache = Empty /\ localStorage = Empty
    /\ now = 0
    /\ last = [op |-> "init"]
    /\ saved = Empty /\ memSaved = {} /\ cacheSet = Empty /\ codec = null
    /\ storageQuota = null /\ opens = 1 /\ pending = <<>>
    /\ idbSecurity = NoLogs /\ sw = WorkerIdle /\ pendingPasswordUrl = <<>>
    /\ AppConstructed

WriteNext ==
    \/ \E r \in URLRecords : SaveBegin(r)
    \/ \E putFails, setItemFails \in BOOLEAN : SaveSettle(putFails, setItemFails)
    \/ \E r \in URLRecords, setItemFails \in BOOLEAN :
           ~db /\ SaveURL(r, FALSE, setItemFails)
    \/ \E id \in Ids : GetURL(id)
    \/ GetAllURLs
    \/ clearCache

SpecWrite == WriteInit /\ [][WriteNext]_vars

\* C11: a saveURL changes the Map and the fallback store only in the step in which its
\* put has completed (or with db null), never while the put is outstanding and never
\* when the put failed; and once saveURL(r) has resolved true, every getURL and
\* getAllURLs returns, for the id of r, the record r (up to the compression fields),
\* whichever tier serves the read.
C11_WriteOrdering ==
    /\ [][(last'.op = "saveURL called" \/ (last'.op = "saveURL" /\ ~last'.ret))
            => (cache' = cache /\ localStorage' = localStorage)]_vars
    /\ []((last.op = "getURL" /\ last.arg \in DOMAIN saved /\ last.ret # null)
            => decompressData(last.ret) = saved[last.arg])
    /\ [](last.op = "getAllURLs"
            => \A i \in DOMAIN last.ret :
                   last.ret[i].id \in DOMAIN saved
                       => decompressData(last.ret[i]) = saved[last.ret[i].id])

\* C12: saveURL resolves false whenever its put or its localStorage.setItem failed, and
\* true only when the record is in every available durable tier: in the fallback
\* store and, with an open database, in the structured store.
C12_FailureReported ==
    (last.op = "saveURL" /\ last.ret) =>
        /\ ~last.setItemThrew
        /\ storageKey("urls", last.arg) \in DOMAIN localStorage
        /\ decompressData(JSONparse(localStorage[storageKey("urls", last.arg)]))
               = saved[last.arg]
        /\ db => (last.arg \in DOMAIN idbUrls
                      /\ decompressData(idbUrls[last.arg]) = saved[last.arg])

----------------------------------------------------------------------------
(* Loss of the memory cache, checked under SpecCache.                      *)

\* the manager after destroy() and a new init() in the same mode: the database opens
\* again exactly if it is open now
afterLoss ==
    init([db |-> FALSE, initialized |-> FALSE, storageQuota |-> storageQuota,
          cache |-> Empty],
         localStorage, db, [kind |-> "absent"])

\* C17: the Map is not authoritative. For every key written by a setCache that resolved
\* true and whose TTL has not run out, getCache after the loss of the Map (destroy()
\* then init(), in normal mode or in fallback mode) returns what it returns without
\* the loss.
C17_CacheNotAuthoritative ==
    initialized =>
        \A k \in DOMAIN cacheSet :
            cacheSet[k].expiry > now
                => getCache([CacheTiers EXCEPT !.cache = afterLoss.cache], k).ret
                       = getCache(CacheTiers, k).ret

----------------------------------------------------------------------------
(* Upsert, checked under Spec.                                             *)

----------------------------------------------------------------------------
(* Migration of legacy data (storage-manager.js:813-868). SpecMigrate      *)
(* starts an initialized manager on a fallback store left by an earlier    *)
(* version of the application and runs migrateFromOldStorage, possibly     *)
(* more than once, between reads and deletes.                              *)

legacyKeys ==
    <<"urlShortener_urls", "secureUrlShortener_urls",
      "urlShortener_rateLimit", "secureUrlShortener_rateLimit",
      "urlShortener_securityStats", "secureUrlShortener_securityStats">>

\* the JSON text of an array: its members are named by their indices
JSONstringifyArray(list) == [i \in 1..Len(list) |-> <<ToString(i - 1), list[i]>>]

\* localStorage.removeItem(key) after the branch of a key (line 852)
removeItemKeeps(ls, key) == ls

removeItem(ls, key) == Without(ls, key)

\* the state of one run: the tiers T, the 'settings' store, the counter migrated, and
\* for the observer the number of saves that resolved true and the keys with a save
\* that resolved false
\* for (const url of parsedData) { await this.saveURL(url); migrated++; }
RECURSIVE migrateUrls(_, _, _, _, _)
migrateUrls(S, key, list, j, putFails) ==
    IF j > Len(list) THEN S
    ELSE LET r == saveURL(S.T, list[j], putFails, FALSE)
         IN  migrateUrls([S EXCEPT !.T.idb = r.idb, !.T.ls = r.ls, !.T.cache = r.cache,
                                   !.migrated = @ + 1,
                                   !.stored = IF r.ret THEN @ + 1 ELSE @,
                                   !.failed = IF r.ret THEN @ ELSE @ \cup {key}],
                         key, list, j + 1, putFails)

\* await this.saveSetting(name, parsedData); migrated++; saveSetting returns false
\* without writing anything when its put fails (lines 315-328)
migrateSetting(S, key, name, value, putFails) ==
    IF S.T.db /\ putFails
    THEN [S EXCEPT !.migrated = @ + 1, !.failed = @ \cup {key}]
    ELSE LET r == saveSetting(S.T, S.settings, name, value)
         IN  [S EXCEPT !.settings = r.idb, !.T.ls = r.ls,
                       !.T.cache = (settingKey(name) :> value) @@ @,
                       !.migrated = @ + 1, !.stored = @ + 1]

\* the body of the loop over legacyKeys for one key (lines 830-856);
\* key.includes(...) is case-sensitive, so the 'urlS' of urlShortener does not count
migrateKey(S, key, putFails) ==
    IF key \notin DOMAIN S.T.ls \/ ~parses(S.T.ls[key]) THEN S
    ELSE LET text == S.T.ls[key]
             includesUrls == key \in {"urlShortener_urls", "secureUrlShortener_urls"}
             includesRateLimit ==
                 key \in {"urlShortener_rateLimit", "secureUrlShortener_rateLimit"}
             isArray == \A i \in DOMAIN text : text[i][1] = ToString(i - 1)
             parsedData == [i \in 1..Len(text) |-> text[i][2]]
             done == IF includesUrls
                     THEN IF isArray
                          THEN migrateUrls(S, key, parsedData, 1, putFails)
                          ELSE S
                     ELSE IF includesRateLimit
                     THEN migrateSetting(S, key, "rateLimit", JSONparse(text), putFails)
                     ELSE migrateSetting(S, key, "securityStats", JSONparse(text),
                                         putFails)
         IN  [done EXCEPT !.T.ls = removeItem(@, key)]

RECURSIVE migrateFrom(_, _, _)
migrateFrom(S, i, putFails) ==
    IF i > Len(legacyKeys) THEN S
    ELSE migrateFrom(migrateKey(S, legacyKeys[i], putFails), i + 1, putFails)

migrateFromOldStorage(T, settings, putFails) ==
    migrateFrom([T |-> T, settings |-> settings, migrated |-> 0, stored |-> 0,
                 failed |-> {}], 1, putFails)

\* one awaited migrateFromOldStorage(); putFails: the puts of this run are rejected
MigrateFromOldStorage(putFails) ==
    LET r == migrateFromOldStorage(Tiers, idbSettings, putFails)
    IN  /\ putFails => db
        /\ idbUrls' = r.T.idb
        /\ localStorage' = r.T.ls
        /\ cache' = r.T.cache
        /\ idbSettings' = r.settings
        /\ last' = [op |-> "migrateFromOldStorage", ret |-> r.migrated,
                    stored |-> r.stored, failed |-> r.failed,
                    again |-> last.op = "migrateFromOldStorage"]
        /\ UNCHANGED <<db, initialized, compressionEnabled, idbCache, now, saved, memSaved,
                       cacheSet, codec, urls, rateLimit, calls, gen, accepted, deleted,
                       frameVars, sideVars>>

\* fallback stores left by an earlier version: a list of two records, a list whose
\* records share a short code, a list that is not JSON next to a rate limit, a list
\* in the second key next to security statistics
LegacyStores ==
    {Empty,
     ("urlShortener_urls" :> JSONstringifyArray(
         <<[id |-> 1, shortCode |-> CodeA, clicks |-> 0],
           [id |-> 2, shortCode |-> CodeB, clicks |-> 0]>>)),
     ("urlShortener_urls" :> JSONstringifyArray(
         <<[id |-> 1, shortCode |-> CodeA, clicks |-> 0],
           [id |-> 2, shortCode |-> CodeA, clicks |-> 0]>>)),
     ("urlShortener_urls" :> NotJSON)
        @@ ("secureUrlShortener_rateLimit" :> JSONstringify(StoredRateLimit)),
     ("secureUrlShortener_urls" :> JSONstringifyArray(
         <<[id |-> 1, shortCode |-> CodeA, clicks |-> 5]>>))
        @@ ("urlShortener_securityStats" :>
               JSONstringify([scanned |-> 1, blocked |-> 0, rateLimited |-> 0]))}

MigrateInit ==
    /\ db \in BOOLEAN /\ initialized = TRUE /\ compressionEnabled = TRUE
    /\ cache = Empty /\ idbUrls = Empty /\ idbCache = Empty
    /\ localStorage \in LegacyStores
    /\ now = 0
    /\ last = [op |-> "init"]
    /\ saved = Empty /\ memSaved = {} /\ cacheSet = Empty /\ codec = null
    /\ storageQuota = null /\ opens = 1 /\ pending = <<>>
    /\ idbSecurity = NoLogs /\ sw = WorkerIdle /\ pendingPasswordUrl = <<>>
    /\ AppConstructed

MigrateNext ==
    \/ \E putFails \in BOOLEAN : MigrateFromOldStorage(putFails)
    \/ \E id \in Ids : GetURL(id)
    \/ GetAllURLs
    \/ \E id \in Ids : DeleteURL(id)
    \/ clearCache

SpecMigrate == MigrateInit /\ [][MigrateNext]_vars

\* C19: a migrateFromOldStorage that directly follows another one returns 0 and leaves
\* the structured store, the fallback store and the Map as they are.
C19_MigrationIdempotent ==
    [][(last.op = "migrateFromOldStorage" /\ last'.op = "migrateFromOldStorage")
        => /\ last'.ret = 0
           /\ idbUrls' = idbUrls /\ idbSettings' = idbSettings
           /\ localStorage' = localStorage /\ cache' = cache]_vars

\* a second run was made after a first run that migrated the rate limit and left
\* behind the key that is not JSON
C19_Witness ==
    /\ last.op = "migrateFromOldStorage" /\ last.again /\ last.ret = 0
    /\ settingKey("rateLimit") \in DOMAIN localStorage
    /\ "urlShortener_urls" \in DOMAIN localStorage

\* C20: for every legacy key present before a run, a key whose value is not JSON is left
\* in place as it was, a key whose value parses and whose items were all saved is
\* removed, also when another key failed to parse, and the number returned is the
\* number of items that were saved.
C20_PerKeyOutcome ==
    [][last'.op = "migrateFromOldStorage"
        => /\ \A i \in DOMAIN legacyKeys :
                  LET key == legacyKeys[i]
                  IN  key \in DOMAIN localStorage
                        => IF parses(localStorage[key])
                           THEN key \in last'.failed \/ key \notin DOMAIN localStorage'
                           ELSE /\ key \in DOMAIN localStorage'
                                /\ localStorage'[key] = localStorage[key]
           /\ last'.ret = last'.stored]_vars

----------------------------------------------------------------------------
(* Maintenance (storage-manager.js:259-308, 666-742, 871-887).  The object *)
(* store 'security' is kept as the number of its entries at each           *)
(* timestamp: its operations select entries by their rank in timestamp     *)
(* order and by nothing else.                                              *)

\* 30 * 24 * 60 * 60 * 1000 ms, in units of the clock (half an hour)
ThirtyDays == 1440

\* getSecurityLogs(2000) and logs.slice(1000) in optimizeStorage
LogsFetched == 2000
LogsKept == 1000

\* saveSecurityLog calls made on an empty store in one behaviour
MaxNewLogs == 2

\* the number of entries of logs with a timestamp in S
RECURSIVE entriesIn(_, _)
entriesIn(logs, S) ==
    IF S = {} THEN 0
    ELSE LET t == CHOOSE x \in S : TRUE
         IN  logs[t] + entriesIn(logs, S \ {t})

\* array.length of a list of log entries
length(logs) == entriesIn(logs, DOMAIN logs)

\* the entries of logs whose rank, most recent first, is above from and at most to
ranked(logs, from, to) ==
    LET lo(t) == entriesIn(logs, {x \in DOMAIN logs : x > t})
        hi(t) == lo(t) + logs[t]
        a(t) == IF lo(t) > from THEN lo(t) ELSE from
        b(t) == IF hi(t) < to THEN hi(t) ELSE to
    IN  [t \in {x \in DOMAIN logs : b(x) > a(x)} |-> b(t) - a(t)]

\* the cursor on index 'timestamp', direction 'prev', stopped after limit entries
getSecurityLogs(logs, limit) ==
    IF db THEN ranked(logs, 0, limit) ELSE NoLogs

\* the cursor with IDBKeyRange.upperBound(thirtyDaysAgo) deletes what it visits
cleanupSecurityLogs(logs) ==
    LET thirtyDaysAgo == now - ThirtyDays
        visited == {t \in DOMAIN logs : t <= thirtyDaysAgo}
    IN  IF db
        THEN [ret |-> entriesIn(logs, visited),
              security |-> [t \in DOMAIN logs \ visited |-> logs[t]]]
        ELSE [ret |-> 0, security |-> logs]

\* what a maintenance operation works on
Stores == [T |-> Tiers, idbCache |-> idbCache, security |-> idbSecurity]

\* optimizeStorage(): requestFails is the failure of the cursor request of its
\* clearExpiredCache, whose rejection the await at line 675 throws into the catch
optimizeStorage(M, requestFails) ==
    LET RECURSIVE resave(_, _, _)
        resave(T, list, i) ==
            IF i > Len(list) THEN T
            ELSE IF ~isCompressed(list[i]) /\ T.compressionEnabled
            THEN LET r == saveURL(T, list[i], FALSE, FALSE)
                 IN  resave([T EXCEPT !.idb = r.idb, !.ls = r.ls, !.cache = r.cache],
                            list, i + 1)
            ELSE resave(T, list, i + 1)
        cleared == clearExpiredCache([idb |-> M.idbCache, cache |-> M.T.cache])
        logs == getSecurityLogs(M.security, LogsFetched)
        \* logs.slice(1000)
        toRemove == IF length(logs) > LogsKept
                    THEN ranked(logs, LogsKept, length(logs))
                    ELSE NoLogs
        left(t) == IF t \in DOMAIN toRemove THEN M.security[t] - toRemove[t]
                   ELSE M.security[t]
        urls_ == getAllURLs(M.T)
    IN  IF requestFails
        THEN [ret |-> null, T |-> M.T, idbCache |-> M.idbCache, security |-> M.security]
        ELSE [ret |-> [cacheCleared |-> cleared.ret,
                       expiredEntriesRemoved |-> length(toRemove),
                       spaceFreed |-> 0],
              T |-> resave([M.T EXCEPT !.cache = urls_.cache], urls_.ret, 1),
              idbCache |-> cleared.idb,
              security |-> [t \in {x \in DOMAIN M.security : left(x) > 0} |-> left(t)]]

\* performMaintenance(): firstFails is the failure of the cursor request of the
\* clearExpiredCache it calls itself (line 876), laterFails of the one optimizeStorage
\* calls; the three awaits stand in one try whose catch returns null
performMaintenance(M, firstFails, laterFails) ==
    LET cleared == clearExpiredCache([idb |-> M.idbCache, cache |-> M.T.cache])
        cleaned == cleanupSecurityLogs(M.security)
        o == optimizeStorage([T |-> M.T, idbCache |-> cleared.idb,
                              security |-> cleaned.security], laterFails)
    IN  IF firstFails
        THEN [ret |-> null, T |-> M.T, idbCache |-> M.idbCache, security |-> M.security]
        ELSE [ret |-> [cacheCleared |-> cleared.ret,
                       logsCleanedUp |-> cleaned.ret,
                       optimizationResults |-> o.ret],
              T |-> o.T, idbCache |-> o.idbCache, security |-> o.security]

\* the effect of a maintenance operation with result r on the variables; saved and
\* memSaved follow the saveURL calls of the application only
maintained(r) ==
    /\ idbUrls' = r.T.idb
    /\ localStorage' = r.T.ls
    /\ cache' = r.T.cache
    /\ idbCache' = r.idbCache
    /\ idbSecurity' = r.security
    /\ UNCHANGED <<db, initialized, compressionEnabled, now, saved, memSaved, cacheSet,
                   codec, appVars, frameVars, sw,
                   pendingPasswordUrl>>

OptimizeStorage(requestFails) ==
    /\ requestFails => db
    /\ maintained(optimizeStorage(Stores, requestFails))
    /\ last' = [op |-> "optimizeStorage", settled |-> "resolved",
                ret |-> optimizeStorage(Stores, requestFails).ret]

PerformMaintenance(firstFails, laterFails) ==
    /\ (firstFails \/ laterFails) => db
    /\ maintained(performMaintenance(Stores, firstFails, laterFails))
    /\ last' = [op |-> "performMaintenance", settled |-> "resolved",
                ret |-> performMaintenance(Stores, firstFails, laterFails).ret]

\* saveSecurityLog(): one entry with timestamp Date.now() is added to an open
\* database, then cleanupSecurityLogs() runs
SaveSecurityLog ==
    /\ length(idbSecurity) < MaxNewLogs
    /\ idbSecurity' =
           cleanupSecurityLogs(
               IF db
               THEN (now :> (IF now \in DOMAIN idbSecurity THEN idbSecurity[now] + 1 ELSE 1))
                        @@ idbSecurity
               ELSE idbSecurity).security
    /\ last' = [op |-> "saveSecurityLog", ret |-> TRUE]
    /\ UNCHANGED <<storeVars, now, saved, memSaved, cacheSet, codec, appVars, frameVars, sw,
                   pendingPasswordUrl>>

\* the 'security' store as earlier sessions left it: empty; entries older than thirty
\* days below more than LogsKept recent ones; more entries than one fetch returns
SecurityLogs ==
    {NoLogs,
     (0 - ThirtyDays - 1 :> 3) @@ (0 :> 1200),
     (0 - 2 :> 500) @@ (0 - 1 :> 1000) @@ (0 :> 1000)}

\* a constructed manager over empty URL stores and one of the security stores
MaintInit ==
    /\ db = FALSE /\ initialized = FALSE /\ compressionEnabled = TRUE
    /\ cache = Empty /\ idbUrls = Empty /\ idbCache = Empty /\ localStorage = Empty
    /\ now = 0
    /\ last = [op |-> "new"]
    /\ saved = Empty /\ memSaved = {} /\ cacheSet = Empty /\ codec = null
    /\ storageQuota = null /\ opens = 0 /\ pending = <<>>
    /\ idbSecurity \in SecurityLogs /\ sw = WorkerIdle /\ pendingPasswordUrl = <<>>
    /\ AppConstructed

MaintNext ==
    \/ \E openOk \in BOOLEAN : ManagerInit(openOk, [kind |-> "absent"])
    \/ \E b \in BOOLEAN : SetCompressionEnabled(b)
    \/ \E r \in {u \in URLRecords : u.clicks = 0} : SaveURL(r, FALSE, FALSE)
    \/ ClearExpiredCache(FALSE)
    \/ OptimizeStorage(FALSE)
    \/ PerformMaintenance(FALSE, FALSE)
    \/ SaveSecurityLog

SpecMaint == MaintInit /\ [][MaintNext]_vars

\* the records a read returned, without the fields compression added
contents(list) == {decompressData(list[i]) : i \in DOMAIN list}

\* C21: performMaintenance, optimizeStorage and clearExpiredCache leave the URL records
\* unchanged: getAllURLs returns after the operation the records it returned before
\* it, each with the same decompressed content.
C21_MaintenanceKeepsURLs ==
    [][(ClearExpiredCache(FALSE) \/ OptimizeStorage(FALSE)
            \/ PerformMaintenance(FALSE, FALSE))
         => contents(getAllURLs(Tiers').ret) = contents(getAllURLs(Tiers).ret)]_vars

\* C22: after optimizeStorage or performMaintenance on an open database the object
\* store 'security' holds at most LogsKept entries, and they are the most recent, by
\* timestamp, of the entries it held before.
C22_LogsCapped ==
    [][((OptimizeStorage(FALSE) \/ PerformMaintenance(FALSE, FALSE)) /\ db)
         => /\ length(idbSecurity') <= LogsKept
            /\ idbSecurity' = ranked(idbSecurity, 0, length(idbSecurity'))]_vars

----------------------------------------------------------------------------
(* Failing requests: SpecFault runs the cache operations of the manager    *)
(* while the clock advances and requests on the database fail.             *)

FaultNext ==
    \/ \E k \in CacheKeys, d \in CachePayloads, ttl \in 1..MaxTTL : SetCache(k, d, ttl)
    \/ \E k \in CacheKeys : GetCache(k)
    \/ \E requestFails \in BOOLEAN : ClearExpiredCache(requestFails)
    \/ \E requestFails \in BOOLEAN : OptimizeStorage(requestFails)
    \/ \E firstFails, laterFails \in BOOLEAN : PerformMaintenance(firstFails, laterFails)
    \/ Tick

SpecFault == WriteInit /\ [][FaultNext]_vars

\* C13: no public operation of the manager rejects or throws: whichever request on the
\* structured store or call on the fallback store fails during it, its promise
\* resolves (to false, null, 0, [] or an error list).
C13_NoExceptionEscapes ==
    "settled" \in DOMAIN last => last.settled = "resolved"

----------------------------------------------------------------------------
(* The effect and the result of clearExpiredCache, checked under SpecFault. *)

\* C23: a clearExpiredCache that resolves has removed from the object store 'cache'
\* exactly the entries with expiry <= now, has left the entries with a later expiry and
\* the stores 'urls', 'security' and 'settings' as they were, and has resolved to the
\* number of entries it removed: a non-negative integer, 0 when it removed nothing,
\* also when the database is unavailable.
C23_ClearExpiredExact ==
    [][(ClearExpiredCache(FALSE) /\ last'.settled = "resolved")
         => /\ DOMAIN idbCache' =
                   IF db THEN {k \in DOMAIN idbCache : idbCache[k].expiry > now}
                   ELSE DOMAIN idbCache
            /\ \A k \in DOMAIN idbCache' : idbCache'[k] = idbCache[k]
            /\ idbUrls' = idbUrls /\ idbSecurity' = idbSecurity
            /\ idbSettings' = idbSettings
            /\ last'.ret
                   = [number |-> Cardinality(DOMAIN idbCache \ DOMAIN idbCache')]]_vars

\* C27: performMaintenance never rejects, and when a sub-step fails it still resolves
\* with a result object: the failed sub-step contributes null or 0 to it and the other
\* sub-steps contribute their results.
C27_MaintenanceContainsFailure ==
    [][\A firstFails, laterFails \in BOOLEAN :
           PerformMaintenance(firstFails, laterFails)
               => /\ last'.settled = "resolved"
                  /\ last'.ret # null
                  /\ firstFails => last'.ret.cacheCleared \in {null, [number |-> 0]}
                  /\ last'.ret.logsCleanedUp = cleanupSecurityLogs(idbSecurity).ret
                  /\ laterFails <=> last'.ret.optimizationResults = null]_vars

----------------------------------------------------------------------------
(* Export and import (storage-manager.js:745-810): SpecBackup runs them on *)
(* an initialized manager that saves URL records and settings.             *)

\* the settings the application stores (part_000:16, 19-23)
StoredSettings ==
    ("rateLimit" :> StoredRateLimit)
        @@ ("securityStats" :> [scanned |-> 1, blocked |-> 0, rateLimited |-> 0])

\* exportAllData(): the records of getAllURLs, the 'settings' object store of an open
\* database, the metadata
exportAllData(T, settings) ==
    [ret |-> [urls |-> getAllURLs(T).ret,
              settings |-> IF T.db
                           THEN [k \in DOMAIN settings |-> settings[k].value]
                           ELSE Empty,
              metadata |-> [exportDate |-> now, version |-> "2.0",
                            compressed |-> T.compressionEnabled]],
     cache |-> getAllURLs(T).cache]

\* importAllData(importData): the loop over importData.urls, then the loop over the
\* entries of importData.settings; saveURL and saveSetting catch what fails in them
\* and resolve (lines 87-109, 311-330), so the catch of neither loop runs and errors
\* stays empty; stored counts the calls that resolved true
importAllData(T, settings, importData, putFails) ==
    LET RECURSIVE entries(_, _)
        entries(S, keys) ==
            IF keys = {} THEN S
            ELSE LET key == CHOOSE k \in keys : TRUE
                 IN  entries(migrateSetting(S, key, key, importData.settings[key],
                                            putFails),
                             keys \ {key})
        start == [T |-> T, settings |-> settings, migrated |-> 0, stored |-> 0,
                  failed |-> {}]
        u == migrateUrls(start, "urls", importData.urls, 1, putFails)
        s == entries([u EXCEPT !.migrated = 0, !.stored = 0],
                     DOMAIN importData.settings)
    IN  [ret |-> [urls |-> u.migrated, settings |-> s.migrated, errors |-> <<>>],
         storedUrls |-> u.stored, storedSettings |-> s.stored,
         T |-> s.T, settings |-> s.settings]

\* one awaited saveSetting(key, value); putFails: the put of line 316 is rejected;
\* setItemFails: localStorage.setItem of line 323 throws, after the put and cache.set
SaveSetting(key, value, putFails, setItemFails) ==
    LET r == saveSetting(Tiers, idbSettings, key, value)
    IN  /\ putFails => db
        /\ idbSettings' = IF putFails THEN idbSettings ELSE r.idb
        /\ cache' = IF putFails THEN cache ELSE (settingKey(key) :> value) @@ cache
        /\ localStorage' = IF putFails \/ setItemFails THEN localStorage ELSE r.ls
        /\ last' = [op |-> "saveSetting", arg |-> key,
                    ret |-> ~(putFails \/ setItemFails)]
        /\ UNCHANGED <<db, initialized, compressionEnabled, idbUrls, idbCache, now, saved,
                       memSaved, cacheSet, codec, urls, rateLimit, calls, gen, accepted,
                       deleted, frameVars, sideVars>>

ExportAllData ==
    LET r == exportAllData(Tiers, idbSettings)
    IN  /\ cache' = r.cache
        /\ last' = [op |-> "exportAllData", ret |-> r.ret]
        /\ UNCHANGED <<db, initialized, compressionEnabled, idbUrls, idbCache,
                       localStorage, now, saved, memSaved, cacheSet, codec, appVars,
                       frameVars, sideVars>>

\* one awaited importAllData(importData); putFails: the puts of this run are rejected
ImportAllData(importData, putFails) ==
    LET r == importAllData(Tiers, idbSettings, importData, putFails)
    IN  /\ putFails => db
        /\ idbUrls' = r.T.idb
        /\ localStorage' = r.T.ls
        /\ cache' = r.T.cache
        /\ idbSettings' = r.settings
        /\ last' = [op |-> "importAllData", ret |-> r.ret,
                    items |-> Len(importData.urls)
                                  + Cardinality(DOMAIN importData.settings),
                    storedUrls |-> r.storedUrls, storedSettings |-> r.storedSettings]
        /\ UNCHANGED <<db, initialized, compressionEnabled, idbCache, now, saved, memSaved,
                       cacheSet, codec, urls, rateLimit, calls, gen, accepted, deleted,
                       frameVars, sideVars>>

\* a backup made elsewhere: two records with one short code, and one setting
ForeignBackup ==
    [urls |-> <<[id |-> 1, shortCode |-> CodeA, clicks |-> 0],
                [id |-> 2, shortCode |-> CodeA, clicks |-> 0]>>,
     settings |-> ("rateLimit" :> StoredRateLimit),
     metadata |-> [exportDate |-> 0, version |-> "2.0", compressed |-> TRUE]]

BackupNext ==
    \/ \E r \in {u \in URLRecords : u.shortCode = CodeA \/ u.id = 2} :
           \E putFails, setItemFails \in BOOLEAN : SaveURL(r, putFails, setItemFails)
    \/ \E key \in DOMAIN StoredSettings, putFails, setItemFails \in BOOLEAN :
           SaveSetting(key, StoredSettings[key], putFails, setItemFails)
    \/ ExportAllData
    \/ \E putFails \in BOOLEAN :
           \/ ImportAllData(ForeignBackup, putFails)
           \/ last.op = "exportAllData" /\ ImportAllData(last.ret, putFails)

SpecBackup == WriteInit /\ [][BackupNext]_vars

\* C24: the urls and settings counts of the result of importAllData are the numbers of
\* items whose saveURL or saveSetting succeeded, and each item whose save failed adds
\* one entry to errors and is not counted.
C24_ImportCounts ==
    last.op = "importAllData"
        => /\ last.ret.urls = last.storedUrls
           /\ last.ret.settings = last.storedSettings
           /\ Len(last.ret.errors)
                  = last.items - last.storedUrls - last.storedSettings

\* C25: the result of exportAllData holds every stored URL record in its decompressed
\* form, without the fields compression added, a map with every stored setting, and
\* the metadata, and nothing else; in normal mode and in fallback mode.
C25_ExportContents ==
    last.op = "exportAllData"
        => /\ DOMAIN last.ret = {"urls", "settings", "metadata"}
           /\ {last.ret.urls[i] : i \in DOMAIN last.ret.urls}
                  = IF db THEN {decompressData(idbUrls[i]) : i \in DOMAIN idbUrls}
                    ELSE contents(getAllFromLocalStorage(localStorage, "urls_"))
           /\ \A key \in DOMAIN StoredSettings :
                  getSetting(Tiers, idbSettings, key, null) # null
                      => /\ key \in DOMAIN last.ret.settings
                         /\ last.ret.settings[key]
                                = getSetting(Tiers, idbSettings, key, null)
           /\ DOMAIN last.ret.metadata = {"exportDate", "version", "compressed"}

\* C26: importing the result of exportAllData into an empty manager in the same mode
\* gives a manager whose getAllURLs returns the records of this one, with the same
\* content, and whose getSetting returns for every key what this one returns.
C26_ExportImportRoundTrip ==
    LET exported == exportAllData(Tiers, idbSettings).ret
        restored == importAllData([db |-> db, compressionEnabled |-> TRUE, idb |-> Empty,
                                   ls |-> Empty, cache |-> Empty],
                                  Empty, exported, FALSE)
    IN  /\ contents(getAllURLs(restored.T).ret) = contents(getAllURLs(Tiers).ret)
        /\ \A key \in DOMAIN StoredSettings :
               getSetting(restored.T, restored.settings, key, null)
                   = getSetting(Tiers, idbSettings, key, null)

----------------------------------------------------------------------------
(* destroy(), checked under SpecInit.                                      *)

\* C28: destroy leaves db null, the Map empty and initialized false, and changes
\* nothing in the structured store and the fallback store; a destroy that follows a
\* destroy changes no field of the manager.
C28_DestroyIdempotent ==
    [][destroy
         => /\ ~db' /\ cache' = Empty /\ ~initialized'
            /\ idbUrls' = idbUrls /\ idbCache' = idbCache /\ idbSettings' = idbSettings
            /\ idbSecurity' = idbSecurity /\ localStorage' = localStorage
            /\ last.op = "destroy"
                   => /\ db' = db /\ cache' = cache /\ initialized' = initialized
                      /\ compressionEnabled' = compressionEnabled
                      /\ storageQuota' = storageQuota]_vars

\* a destroy has closed a connection and emptied a Map that held an entry, and the
\* destroy after it ran on stores that hold entries
C28_Witness ==
    /\ last.op = "destroy" /\ last.again
    /\ idbCache # Empty /\ localStorage # Empty
    /\ ~db /\ ~initialized /\ cache = Empty

----------------------------------------------------------------------------
(* Redirects (part_000:895-919, 1298-1309, 1682-1733): SpecClick redirects *)
(* the records of a started application, through the password dialog where *)
(* a record is protected, while the clock advances.                        *)

\* 24 * 60 * 60 * 1000 ms, in units of the clock (half an hour)
Day == 48

\* redirects of one tracked record in one behaviour
MaxRedirects == 3

\* navigator.userAgent, before and after an update of the browser
UserAgents == {"ua1", "ua2"}

\* the passwords typed into the dialog, as their char codes: "a", "Aa" and "BB"
Passwords == {<<97>>, <<65, 97>>, <<66, 66>>}

\* hashPassword(password): hash = ((hash << 5) - hash) + char; hash = hash & hash, over
\* the characters from the left: 31 * hash + char wrapped to a signed 32-bit integer,
\* computed on the two 16-bit halves of hash; the decimal string the method returns
\* is kept as that integer
RECURSIVE hashPassword(_)
hashPassword(password) ==
    IF password = <<>> THEN 0
    ELSE LET hash == hashPassword(SubSeq(password, 1, Len(password) - 1))
             low == 31 * (hash % 65536) + password[Len(password)]
             high == (31 * ((hash \div 65536) % 65536) + low \div 65536) % 65536
         IN  IF high >= 32768 THEN (high - 65536) * 65536 + (low % 65536)
             ELSE high * 65536 + (low % 65536)

\* a getUrlStatus for which no record ever expires
getUrlStatusNeverExpired(urlData) ==
    IF "isProtected" \in DOMAIN urlData /\ urlData.isProtected THEN "status-protected"
    ELSE "status-active"

\* getUrlStatus(urlData) for records without A/B test; a property that is null or
\* missing in the record is a field the record does not have
getUrlStatus(urlData) ==
    IF "expiryDate" \notin DOMAIN urlData
    THEN IF "isProtected" \in DOMAIN urlData /\ urlData.isProtected
         THEN "status-protected"
         ELSE "status-active"
    ELSE IF now > urlData.expiryDate THEN "status-expired" ELSE "status-active"

\* this.urls as shortenUrl filled it (part_000:790-816): a tracked and an untracked
\* record; or a tracked record alone, already redirected once a day before; or a
\* record protected by the password "Aa" and a record with an expiry date; or a
\* protected record with an expiry date alone
ClickRecords ==
    {<<[id |-> 1, shortCode |-> CodeA, trackClicks |-> TRUE, clicks |-> 0,
        uniqueClicks |-> 0, clickHistory |-> <<>>],
       [id |-> 2, shortCode |-> CodeB, trackClicks |-> FALSE, clicks |-> 0,
        uniqueClicks |-> 0, clickHistory |-> <<>>]>>,
     <<[id |-> 1, shortCode |-> CodeA, trackClicks |-> TRUE, clicks |-> 1,
        uniqueClicks |-> 1,
        clickHistory |-> <<[timestamp |-> 1 - Day, userAgent |-> "ua1"]>>]>>,
     <<[id |-> 1, shortCode |-> CodeA, trackClicks |-> TRUE, clicks |-> 0,
        uniqueClicks |-> 0, clickHistory |-> <<>>, isProtected |-> TRUE,
        password |-> hashPassword(<<65, 97>>)],
       [id |-> 2, shortCode |-> CodeB, trackClicks |-> TRUE, clicks |-> 0,
        uniqueClicks |-> 0, clickHistory |-> <<>>, isProtected |-> FALSE,
        expiryDate |-> 2]>>,
     <<[id |-> 1, shortCode |-> CodeA, trackClicks |-> FALSE, clicks |-> 0,
        uniqueClicks |-> 0, clickHistory |-> <<>>, isProtected |-> TRUE,
        password |-> hashPassword(<<65, 97>>), expiryDate |-> 2]>>}

\* a redirectToUrl that records in the history only the clicks it counts as unique
redirectRecordsUniqueOnly(urlData, userAgent) ==
    LET isUniqueClick ==
            ~\E i \in DOMAIN urlData.clickHistory :
                 /\ urlData.clickHistory[i].userAgent = userAgent
                 /\ now - urlData.clickHistory[i].timestamp < Day
    IN  IF urlData.trackClicks
        THEN [urlData EXCEPT
                 !.clicks = @ + 1,
                 !.uniqueClicks = IF isUniqueClick THEN @ + 1 ELSE @,
                 !.clickHistory =
                     IF isUniqueClick
                     THEN Append(@, [timestamp |-> now, userAgent |-> userAgent])
                     ELSE @]
        ELSE urlData

\* redirectToUrl(urlData) up to its first await: the record after the redirect
redirectToUrl(urlData, userAgent) ==
    LET isUniqueClick ==
            ~\E i \in DOMAIN urlData.clickHistory :
                 /\ urlData.clickHistory[i].userAgent = userAgent
                 /\ now - urlData.clickHistory[i].timestamp < Day
    IN  IF urlData.trackClicks
        THEN [urlData EXCEPT
                 !.clicks = @ + 1,
                 !.uniqueClicks = IF isUniqueClick THEN @ + 1 ELSE @,
                 !.clickHistory =
                     Append(@, [timestamp |-> now, userAgent |-> userAgent])]
        ELSE urlData

\* handleRedirect(shortCode), and the saveUrls() that redirectToUrl awaits for a
\* tracked record
HandleRedirect(shortCode, userAgent) ==
    LET found == {i \in DOMAIN urls : urls[i].shortCode = shortCode}
        i == CHOOSE x \in found : \A y \in found : x <= y
        T == saveUrls(Tiers, [urls EXCEPT ![i] = redirectToUrl(@, userAgent)])
    IN  /\ IF found = {} \/ getUrlStatus(urls[i]) = "status-expired"
           THEN /\ last' = [op |-> "handleRedirect", arg |-> shortCode, ret |-> FALSE]
                /\ UNCHANGED <<urls, idbUrls, localStorage, cache, pendingPasswordUrl>>
           ELSE IF "isProtected" \in DOMAIN urls[i] /\ urls[i].isProtected
           THEN /\ pendingPasswordUrl' = <<i>>
                /\ last' = [op |-> "handleRedirect", arg |-> shortCode, ret |-> FALSE]
                /\ UNCHANGED <<urls, idbUrls, localStorage, cache>>
           ELSE /\ urls[i].clicks < MaxRedirects
                /\ urls' = [urls EXCEPT ![i] = redirectToUrl(@, userAgent)]
                /\ IF urls[i].trackClicks
                   THEN idbUrls' = T.idb /\ localStorage' = T.ls /\ cache' = T.cache
                   ELSE UNCHANGED <<idbUrls, localStorage, cache>>
                /\ last' = [op |-> "handleRedirect", arg |-> shortCode, ret |-> TRUE]
                /\ UNCHANGED pendingPasswordUrl
        /\ UNCHANGED <<db, initialized, compressionEnabled, idbCache, now, saved, memSaved,
                       cacheSet, codec, rateLimit, idbSettings, calls, gen, accepted,
                       deleted, frameVars, idbSecurity, sw>>

\* verifyPassword() with the password typed into the dialog; this.pendingPasswordUrl
\* stays what it is
VerifyPassword(password, userAgent) ==
    LET i == pendingPasswordUrl[1]
        T == saveUrls(Tiers, [urls EXCEPT ![i] = redirectToUrl(@, userAgent)])
    IN  /\ IF /\ pendingPasswordUrl # <<>>
              /\ "password" \in DOMAIN urls[i]
              /\ hashPassword(password) = urls[i].password
           THEN /\ urls[i].clicks < MaxRedirects
                /\ urls' = [urls EXCEPT ![i] = redirectToUrl(@, userAgent)]
                /\ IF urls[i].trackClicks
                   THEN idbUrls' = T.idb /\ localStorage' = T.ls /\ cache' = T.cache
                   ELSE UNCHANGED <<idbUrls, localStorage, cache>>
                /\ last' = [op |-> "verifyPassword", arg |-> password, ret |-> TRUE]
           ELSE /\ last' = [op |-> "verifyPassword", arg |-> password, ret |-> FALSE]
                /\ UNCHANGED <<urls, idbUrls, localStorage, cache>>
        /\ UNCHANGED <<db, initialized, compressionEnabled, idbCache, now, saved, memSaved,
                       cacheSet, codec, rateLimit, idbSettings, calls, gen, accepted,
                       deleted, frameVars, sideVars>>

\* a started application whose records are stored as saveUrls() stores them
ClickInit ==
    /\ db \in BOOLEAN /\ initialized = TRUE /\ compressionEnabled = TRUE
    /\ urls \in ClickRecords
    /\ LET T == saveUrls([db |-> db, compressionEnabled |-> TRUE, idb |-> Empty,
                          ls |-> Empty, cache |-> Empty], urls)
       IN  idbUrls = T.idb /\ localStorage = T.ls /\ cache = T.cache
    /\ idbCache = Empty /\ idbSettings = Empty
    /\ now = 1
    /\ rateLimit = StoredRateLimit /\ calls = NoCalls /\ gen = GenIdle
    /\ accepted = <<>> /\ deleted = {}
    /\ last = [op |-> "init"]
    /\ saved = Empty /\ memSaved = {} /\ cacheSet = Empty /\ codec = null
    /\ storageQuota = null /\ opens = 1 /\ pending = <<>>
    /\ idbSecurity = NoLogs /\ sw = WorkerIdle /\ pendingPasswordUrl = <<>>

ClickNext ==
    \/ \E shortCode \in ShortCodes, userAgent \in UserAgents :
           HandleRedirect(shortCode, userAgent)
    \/ \E password \in Passwords, userAgent \in UserAgents :
           VerifyPassword(password, userAgent)
    \/ Tick

SpecClick == ClickInit /\ [][ClickNext]_vars

\* C29: a redirect adds one to the clicks of a tracked record and one event to its
\* click history, so that in every state a tracked record has as many clicks as events
\* in its history and at most as many unique clicks as clicks; a redirect changes
\* neither in an untracked record, which keeps no click and an empty history.
C29_ClickTracking ==
    /\ [](\A i \in DOMAIN urls :
              /\ urls[i].clicks = Len(urls[i].clickHistory)
              /\ urls[i].uniqueClicks <= urls[i].clicks
              /\ ~urls[i].trackClicks => urls[i].clicks = 0)
    /\ [][\A shortCode \in ShortCodes, userAgent \in UserAgents :
              (HandleRedirect(shortCode, userAgent) /\ last'.ret)
                  => \A i \in DOMAIN urls :
                         IF urls[i].shortCode = shortCode /\ urls[i].trackClicks
                         THEN /\ urls'[i].clicks = urls[i].clicks + 1
                              /\ Len(urls'[i].clickHistory)
                                     = Len(urls[i].clickHistory) + 1
                         ELSE urls'[i] = urls[i]]_vars

\* the tracked record was redirected twice, once not as a unique click, and the last
\* redirect was one of the untracked record
C29_Witness ==
    /\ last.op = "handleRedirect" /\ last.arg = CodeB /\ last.ret
    /\ Len(urls) = 2
    /\ urls[1].clicks = 2 /\ urls[1].uniqueClicks = 1

----------------------------------------------------------------------------
(* The service worker's offline queue (service-worker.js:254-298, 332-360, *)
(* 479-485, 575-594).  The worker opens the database of the storage manager *)
(* (same name, version 1) without an upgrade handler, so the database has  *)
(* the object stores that initDB created, or none when the worker's open   *)
(* created it.                                                              *)

\* the object stores initDB creates (storage-manager.js:52-78)
StoreNames == {"urls", "analytics", "security", "settings", "cache"}

SyncTags == {"background-url-sync", "analytics-sync"}

\* storeOfflineUrl(urlData): db.transaction(['offline_urls']) throws a NotFoundError on
\* a database without that object store; the catch logs it and nothing is stored
storeOfflineUrl(w, urlData) ==
    IF "offline_urls" \in w.stores
    THEN [w EXCEPT !.offline_urls =
                       (urlData.id :> [record |-> urlData, timestamp |-> now,
                                       synced |-> FALSE]) @@ @]
    ELSE w

\* syncOfflineUrls(): getOfflineUrls rejects on a database without the object store
\* and the outer catch ends the sync; otherwise every queued URL is posted, and
\* removed from the queue when the response is ok
syncOfflineUrls(w, serverOk) ==
    IF "offline_urls" \in w.stores /\ serverOk
    THEN [w EXCEPT !.posted = @ \cup DOMAIN w.offline_urls, !.offline_urls = Empty]
    ELSE w

\* the message OFFLINE_URL_CREATED with data urlData
OfflineUrlCreated(urlData) ==
    /\ sw' = [storeOfflineUrl(sw, urlData) EXCEPT !.handed = @ \cup {urlData}]
    /\ last' = [op |-> "OFFLINE_URL_CREATED", arg |-> urlData.id]
    /\ UNCHANGED <<storeVars, now, saved, memSaved, cacheSet, codec, appVars, frameVars,
                   idbSecurity, pendingPasswordUrl>>

\* a sync event with the given tag, while the server answers ok or does not
SyncEvent(tag, serverOk) ==
    /\ sw' = IF tag = "background-url-sync" THEN syncOfflineUrls(sw, serverOk) ELSE sw
    /\ last' = [op |-> "sync", tag |-> tag, serverOk |-> serverOk]
    /\ UNCHANGED <<storeVars, now, saved, memSaved, cacheSet, codec, appVars, frameVars,
                   idbSecurity, pendingPasswordUrl>>

\* requests by what the listener and handleFetch inspect: the method, the directory
\* segments and the extension that ends the URL, and request.destination
Requests ==
    {[url |-> "/api/urls", method |-> "GET", dirs |-> {"api"}, ext |-> "",
      destination |-> ""],
     [url |-> "/api/urls", method |-> "POST", dirs |-> {"api"}, ext |-> "",
      destination |-> ""],
     [url |-> "/api/qr/code.png", method |-> "GET", dirs |-> {"api", "qr"}, ext |-> "png",
      destination |-> "image"],
     [url |-> "/images/logo.png", method |-> "GET", dirs |-> {"images"}, ext |-> "png",
      destination |-> "image"],
     [url |-> "/index.html", method |-> "GET", dirs |-> {}, ext |-> "html",
      destination |-> "document"],
     [url |-> "/export/data.json", method |-> "GET", dirs |-> {"export"}, ext |-> "json",
      destination |-> ""]}

\* what fetch(request) does: it resolves to a response with an ok status, resolves to
\* a response with an error status, or rejects
NetworkOutcomes == {"ok", "error status", "rejects"}

\* NETWORK_FIRST.some(pattern => url.pathname.includes(pattern)), on these requests
isNetworkFirst(request) == "api" \in request.dirs

\* CACHE_FIRST.some(pattern => pattern.test(url.href)), on these requests
isCacheFirst(request) ==
    request.ext \in {"png", "jpg", "jpeg", "svg", "gif", "webp", "ico", "woff", "woff2",
                     "ttf", "otf"}

\* handleFetch(request) on the Cache Storage c, with the outcome net of the one
\* fetch(request) its strategy makes: the response, where it came from, whether the
\* response waited for the network, and the Cache Storage afterwards
handleFetch(c, request, net) ==
    LET cached == request.url \in DOMAIN c
        fromNetwork == [status |-> IF net = "ok" THEN 200 ELSE 500]
        \* cache.put(request, networkResponse.clone()) under `if (networkResponse.ok)`
        put == IF net = "ok" THEN (request.url :> fromNetwork) @@ c ELSE c
        \* handleOffline(request), reached when no copy of the request is cached
        handleOffline ==
            IF request.destination = "document"
            THEN [response |-> IF "/index.html" \in DOMAIN c THEN c["/index.html"]
                               ELSE undefined,
                  source |-> "cache", waited |-> TRUE, caches |-> c]
            ELSE IF request.destination = "image"
            THEN [response |-> undefined, source |-> "cache", waited |-> TRUE,
                  caches |-> c]
            ELSE [response |-> [status |-> 503], source |-> "offline", waited |-> TRUE,
                  caches |-> c]
        networkFirst ==
            IF net # "rejects"
            THEN [response |-> fromNetwork, source |-> "network", waited |-> TRUE,
                  caches |-> put]
            ELSE IF cached
            THEN [response |-> c[request.url], source |-> "cache", waited |-> TRUE,
                  caches |-> c]
            ELSE handleOffline
        \* with a cached copy the fetch is the one of updateCacheInBackground
        cacheFirst ==
            IF cached
            THEN [response |-> c[request.url], source |-> "cache", waited |-> FALSE,
                  caches |-> put]
            ELSE IF net # "rejects"
            THEN [response |-> fromNetwork, source |-> "network", waited |-> TRUE,
                  caches |-> put]
            ELSE handleOffline
        \* cachedResponse || networkResponse, the fetch of fetchAndCache always made
        staleWhileRevalidate ==
            IF cached
            THEN [response |-> c[request.url], source |-> "cache", waited |-> FALSE,
                  caches |-> put]
            ELSE IF net # "rejects"
            THEN [response |-> fromNetwork, source |-> "network", waited |-> TRUE,
                  caches |-> put]
            ELSE handleOffline
    IN  IF isNetworkFirst(request) THEN networkFirst
        ELSE IF isCacheFirst(request) THEN cacheFirst
        ELSE IF request.destination = "document" THEN staleWhileRevalidate
        ELSE cacheFirst

\* a fetch listener that hands every request to handleFetch, whatever its method
FetchEventAnyMethod(request, net) ==
    /\ LET r == handleFetch(sw.caches, request, net)
       IN  /\ sw' = [sw EXCEPT !.caches = r.caches]
           /\ last' = [op |-> "fetch", url |-> request.url, method |-> request.method,
                       net |-> net, handled |-> TRUE, response |-> r.response,
                       source |-> r.source, waited |-> r.waited]
    /\ UNCHANGED <<storeVars, now, saved, memSaved, cacheSet, codec, appVars, frameVars,
                   idbSecurity, pendingPasswordUrl>>

\* the fetch listener: a request that is not a GET is left to the browser
FetchEvent(request, net) ==
    /\ IF request.method # "GET"
       THEN /\ sw' = sw
            /\ last' = [op |-> "fetch", url |-> request.url, method |-> request.method,
                        net |-> net, handled |-> FALSE]
       ELSE LET r == handleFetch(sw.caches, request, net)
            IN  /\ sw' = [sw EXCEPT !.caches = r.caches]
                /\ last' = [op |-> "fetch", url |-> request.url,
                            method |-> request.method, net |-> net, handled |-> TRUE,
                            response |-> r.response, source |-> r.source,
                            waited |-> r.waited]
    /\ UNCHANGED <<storeVars, now, saved, memSaved, cacheSet, codec, appVars, frameVars,
                   idbSecurity, pendingPasswordUrl>>

\* a worker on the database as initDB created it or as its own open created it
SyncInit ==
    /\ db \in BOOLEAN /\ initialized = TRUE /\ compressionEnabled = TRUE
    /\ cache = Empty /\ idbUrls = Empty /\ idbCache = Empty /\ localStorage = Empty
    /\ now = 0
    /\ last = [op |-> "init"]
    /\ saved = Empty /\ memSaved = {} /\ cacheSet = Empty /\ codec = null
    /\ storageQuota = null /\ opens = 1 /\ pending = <<>>
    /\ idbSecurity = NoLogs
    \* the install event's cache.addAll(CACHE_FILES) caches the whole app shell or nothing
    /\ \E shell \in {Empty, "/index.html" :> [status |-> 200]} :
           sw = [WorkerIdle EXCEPT !.stores = IF db THEN StoreNames ELSE {},
                                   !.caches = shell]
    /\ pendingPasswordUrl = <<>>
    /\ AppConstructed

SyncNext ==
    \/ \E urlData \in URLRecords : OfflineUrlCreated(urlData)
    \/ \E tag \in SyncTags, serverOk \in BOOLEAN : SyncEvent(tag, serverOk)
    \/ \E request \in Requests, net \in NetworkOutcomes : FetchEvent(request, net)

SpecSync == SyncInit /\ [][SyncNext]_vars

\* C30: a URL handed to the worker by OFFLINE_URL_CREATED is in the offline queue when
\* the message is handled, and when a 'background-url-sync' event is handled while the
\* server answers ok, every URL handed to the worker has been posted and is no longer
\* in the queue.
C30_OfflineUrlsSynced ==
    /\ [][\A urlData \in URLRecords :
              OfflineUrlCreated(urlData) => urlData.id \in DOMAIN sw'.offline_urls]_vars
    /\ [][SyncEvent("background-url-sync", TRUE)
              => \A urlData \in sw.handed :
                     /\ urlData.id \in sw'.posted
                     /\ urlData.id \notin DOMAIN sw'.offline_urls]_vars

----------------------------------------------------------------------------
(* The read path of getURL and getAllURLs, checked under Spec.             *)

\* C31: getURL(id) is served by the Map when the Map has the key url_id, and then
\* touches no other tier; otherwise by the object store 'urls' when the database is
\* open and holds id; otherwise by the fallback store; a hit outside the Map puts the
\* stored object into the Map, so that a getURL(id) made next is served by the Map; a
\* miss in every tier returns null and changes no tier.
C31_ReadPath ==
    [][\A id \in Ids :
           (last'.op = "getURL" /\ GetURL(id))
               => LET inMap == urlCacheKey(id) \in DOMAIN cache
                      inIdb == db /\ id \in DOMAIN idbUrls
                      localData == getFromLocalStorage(localStorage,
                                                       storageKey("urls", id))
                  IN  /\ idbUrls' = idbUrls /\ localStorage' = localStorage
                      /\ last'.tier = (IF inMap THEN "memory"
                                       ELSE IF inIdb THEN "idb"
                                       ELSE IF localData # null THEN "ls"
                                       ELSE "none")
                      /\ last'.tier = "memory"
                             => last'.path = <<"memory">> /\ cache' = cache
                      /\ last'.tier = "idb"
                             => /\ last'.path = <<"memory", "idb">>
                                /\ cache' = (urlCacheKey(id) :> idbUrls[id]) @@ cache
                      /\ last'.tier = "ls"
                             => /\ last'.path = IF db THEN <<"memory", "idb", "ls">>
                                                ELSE <<"memory", "ls">>
                                /\ cache' = (urlCacheKey(id) :> localData) @@ cache
                      /\ last'.tier \in {"idb", "ls"}
                             => getURL(Tiers', id).tier = "memory"
                      /\ last'.tier = "none" => last'.ret = null /\ cache' = cache]_vars

\* a getURL on an open database missed the Map and the object store, was served by
\* the fallback store and put the record into the Map
C31_Witness ==
    /\ last.op = "getURL" /\ last.tier = "ls" /\ db
    /\ last.path = <<"memory", "idb", "ls">>
    /\ urlCacheKey(last.arg) \in DOMAIN cache

\* C32: getAllURLs returns the records of the object store 'urls' when the database is
\* open and the store holds at least one, and otherwise the entries of the fallback
\* store under the keys that start with urls_; in both cases every record it returned
\* is in the Map under its key url_id after the call.
C32_BulkRead ==
    last.op = "getAllURLs"
        => /\ last.tier = (IF db /\ idbUrls # Empty THEN "idb" ELSE "ls")
           /\ {last.ret[i].id : i \in DOMAIN last.ret}
                  = IF last.tier = "idb" THEN DOMAIN idbUrls
                    ELSE {id \in AllIds : storageKey("urls", id) \in DOMAIN localStorage}
           /\ \A i \in DOMAIN last.ret :
                  /\ urlCacheKey(last.ret[i].id) \in DOMAIN cache
                  /\ decompressData(cache[urlCacheKey(last.ret[i].id)])
                         = decompressData(last.ret[i])

(***************************************************************************)
(* The caching strategies of the service worker, checked under SpecSync.   *)
(***************************************************************************)

\* what the three strategies promise of one fetch event, the cache-first promise made
\* for the requests in cacheFirstRequests
strategiesHold(cacheFirstRequests) ==
    \A request \in Requests, net \in NetworkOutcomes :
        (last'.op = "fetch" /\ FetchEvent(request, net))
            => LET c == sw.caches
               IN  /\ request.method # "GET"
                           => ~last'.handled /\ sw'.caches = c
                   /\ request.method = "GET" /\ isNetworkFirst(request)
                           => /\ last'.handled
                              /\ net # "rejects"
                                     => /\ last'.source = "network"
                                        /\ last'.response
                                               = [status |-> IF net = "ok" THEN 200 ELSE 500]
                              /\ last'.source = "cache" => net = "rejects"
                   /\ request \in cacheFirstRequests /\ request.url \in DOMAIN c
                           => /\ last'.handled
                              /\ last'.source = "cache"
                              /\ last'.response = c[request.url]
                              /\ ~last'.waited

\* C33: a GET request on the network-first list is answered by the network whenever
\* the fetch resolves and by the cached copy only when it rejects; a GET request that
\* matches the cache-first patterns and is not on the network-first list is answered
\* by its cached copy, when there is one, without waiting for the network; a request
\* that is not a GET is neither answered by the worker nor written to the cache
C33_CachingStrategies ==
    [][strategiesHold({r \in Requests : /\ r.method = "GET"
                                        /\ isCacheFirst(r)
                                        /\ ~isNetworkFirst(r)})]_vars

\* a cache-first request answered by its cached copy while the network is down
C33_Witness ==
    /\ last.op = "fetch" /\ last.url = "/images/logo.png"
    /\ last.net = "rejects" /\ last.source = "cache" /\ ~last.waited

\* C33 as stated: the cache-first promise made for every GET request that matches the
\* cache-first patterns, the network-first list or not
C33_CachingStrategiesAsStated ==
    [][strategiesHold({r \in Requests : r.method = "GET" /\ isCacheFirst(r)})]_vars


(***************************************************************************)
(* Agreement of the three tiers, checked under SpecWrite.                  *)
(***************************************************************************)

\* the records the tiers hold for a URL id, each as decompressData reads it: the
\* structured store, the fallback store and the Map
held(id) ==
    {decompressData(idbUrls[i]) : i \in {id} \cap DOMAIN idbUrls}
        \cup {decompressData(JSONparse(localStorage[k])) :
                  k \in {k \in {storageKey("urls", id)} \cap DOMAIN localStorage :
                             parses(localStorage[k])}}
        \cup {decompressData(cache[k]) : k \in {urlCacheKey(id)} \cap DOMAIN cache}

\* C34: whenever no saveURL is suspended, the tiers that hold a value for a URL id
\* hold the same record
C34_TiersAgree ==
    pending = <<>> => \A id \in Ids : Cardinality(held(id)) <= 1

(***************************************************************************)
(* What a failed save leaves behind, checked under SpecBackup.             *)
(***************************************************************************)

\* the value a store holds under a key: a one-element sequence, empty without the key
under(store, k) == IF k \in DOMAIN store THEN <<store[k]>> ELSE <<>>

\* C35: when saveURL or saveSetting resolves false, the structured store, the
\* fallback store and the Map hold for its key what they held before the call
C35_FailedSaveChangesNothing ==
    [][/\ (last'.op = "saveURL" /\ ~last'.ret)
            => /\ under(idbUrls', last'.arg) = under(idbUrls, last'.arg)
               /\ under(localStorage', storageKey("urls", last'.arg))
                      = under(localStorage, storageKey("urls", last'.arg))
               /\ under(cache', urlCacheKey(last'.arg))
                      = under(cache, urlCacheKey(last'.arg))
       /\ (last'.op = "saveSetting" /\ ~last'.ret)
            => /\ under(idbSettings', last'.arg) = under(idbSettings, last'.arg)
               /\ under(localStorage', settingKey(last'.arg))
                      = under(localStorage, settingKey(last'.arg))
               /\ under(cache', settingKey(last'.arg))
                      = under(cache, settingKey(last'.arg))]_vars

(***************************************************************************)
(* Durability of saved records across sessions, checked under Spec.        *)
(***************************************************************************)

\* C36: every getAllURLs, in the session of the save or in a later one, returns a
\* record for each id that saveURL resolved true for and that was not deleted since,
\* whether the database was open at the save and whether it is open at the read
C36_SavedRecordsReturned ==
    last.op = "getAllURLs"
        => \A id \in DOMAIN saved : \E i \in DOMAIN last.ret : last.ret[i].id = id

(***************************************************************************)
(* What a migration leaves of the legacy data, checked under SpecMigrate.  *)
(***************************************************************************)

\* C37: after a run of migrateFromOldStorage, every record of a legacy URL list is
\* returned by getURL, and every legacy rate limit or security statistics value by
\* getSetting, unless its legacy key is still in the fallback store with the value it
\* had: no legacy key is removed while one of its items is in no tier
C37_MigrationLosesNothing ==
    [][\A putFails \in BOOLEAN :
           (last'.op = "migrateFromOldStorage" /\ MigrateFromOldStorage(putFails))
               => \A i \in DOMAIN legacyKeys :
                      LET key == legacyKeys[i]
                          text == localStorage[key]
                          kept == key \in DOMAIN localStorage'
                                      /\ localStorage'[key] = text
                          name == IF i \in {3, 4} THEN "rateLimit" ELSE "securityStats"
                      IN  (key \in DOMAIN localStorage /\ parses(text) /\ ~kept)
                              => IF i \in {1, 2}
                                 THEN \A j \in DOMAIN text :
                                          LET r == getURL(Tiers', text[j][2].id).ret
                                          IN  /\ r # null
                                              /\ decompressData(r) = text[j][2]
                                 ELSE getSetting(Tiers', idbSettings', name, null)
                                          = JSONparse(text)]_vars

(***************************************************************************)
(* The keys of the Map (storage-manager.js:98, 320, 335, 382, 392):        *)
(* SpecKeys runs setCache and getCache with keys of the caller's choice    *)
(* next to saveURL, getURL and saveSetting.                                *)
(***************************************************************************)

\* keys a caller passes to setCache and getCache: one of its own, and two that read
\* like the keys saveURL and saveSetting build
CallerKeys == {"scan_a", urlCacheKey(1), settingKey("rateLimit")}

KeysNext ==
    \/ \E r \in URLRecords : SaveURL(r, FALSE, FALSE)
    \/ \E id \in Ids : GetURL(id)
    \/ SaveSetting("rateLimit", StoredRateLimit, FALSE, FALSE)
    \/ \E k \in CallerKeys, d \in CachePayloads : SetCache(k, d, MaxTTL)
    \/ \E k \in CallerKeys : GetCache(k)

SpecKeys == WriteInit /\ [][KeysNext]_vars

\* C38: a setCache changes what no getURL and no getSetting returns, and a getCache
\* returns null or a payload given to setCache, never a URL record given to saveURL
\* nor a value given to saveSetting
C38_NamespacesIsolated ==
    [][/\ \A k \in CallerKeys, d \in CachePayloads :
              (last'.op = "setCache" /\ SetCache(k, d, MaxTTL))
                  => /\ \A id \in Ids : getURL(Tiers', id).ret = getURL(Tiers, id).ret
                     /\ getSetting(Tiers', idbSettings', "rateLimit", null)
                            = getSetting(Tiers, idbSettings, "rateLimit", null)
       /\ \A k \in CallerKeys :
              (last'.op = "getCache" /\ GetCache(k))
                  => last'.ret \in CachePayloads \cup {null}]_vars

(***************************************************************************)
(* The gates of a redirect, checked under SpecClick.                       *)
(***************************************************************************)

\* C39: a handleRedirect of an unknown code, of an expired record or of a protected
\* record returns false and changes no record; and the clicks and the history of a
\* protected record change only in a verifyPassword that redirects, made with a
\* password whose hash is the stored one
C39_RedirectGates ==
    [][/\ \A shortCode \in ShortCodes, userAgent \in UserAgents :
              (last'.op = "handleRedirect" /\ HandleRedirect(shortCode, userAgent))
                  => LET found == {i \in DOMAIN urls : urls[i].shortCode = shortCode}
                     IN  (\/ found = {}
                          \/ \E i \in found :
                                 \/ "expiryDate" \in DOMAIN urls[i]
                                        /\ now > urls[i].expiryDate
                                 \/ "isProtected" \in DOMAIN urls[i]
                                        /\ urls[i].isProtected)
                             => /\ ~last'.ret
                                /\ urls' = urls
                                /\ idbUrls' = idbUrls /\ localStorage' = localStorage
       /\ \A password \in Passwords, userAgent \in UserAgents :
              (last'.op = "verifyPassword" /\ VerifyPassword(password, userAgent)
                   /\ last'.ret)
                  => /\ pendingPasswordUrl # <<>>
                     /\ urls[pendingPasswordUrl[1]].isProtected
                     /\ hashPassword(password) = urls[pendingPasswordUrl[1]].password
                     /\ \A i \in DOMAIN urls :
                            i # pendingPasswordUrl[1] => urls'[i] = urls[i]
       /\ \A i \in DOMAIN urls :
              ("isProtected" \in DOMAIN urls[i] /\ urls[i].isProtected
                   /\ urls'[i] # urls[i])
                  => last'.op = "verifyPassword" /\ last'.ret]_vars

\* the protected record was redirected by verifyPassword, with a password that is not
\* the one it was created with and has the same hash
C39_Witness ==
    /\ last.op = "verifyPassword" /\ last.ret /\ last.arg = <<66, 66>>
    /\ Len(urls) = 2 /\ urls[1].isProtected /\ urls[1].clicks = 1
    /\ hashPassword(<<97>>) # urls[1].password

(***************************************************************************)
(* Termination of generateShortCode (part_000:1271-1284): SpecGenFair is   *)
(* SpecGen with a generator that keeps running and a fair Math.random().   *)
(***************************************************************************)

\* the codes the draws of the model can produce
DrawnCodes == [1..CodeLength -> {charAt(i) : i \in DrawIndices}]

\* the draw at position k + 1 after which result is still the beginning of a code
\* that no record of the list has
FairDraw(k) ==
    \E i \in DrawIndices :
        /\ GenDraw(i)
        /\ Len(gen.result) = k
        /\ \E code \in DrawnCodes :
               /\ ~codeInUse(urls, code)
               /\ SubSeq(code, 1, k + 1) = gen.result'

\* the list that holds two of the codes the draws produce
GenFairInit == GenInit /\ Len(urls) = 2

\* a call in progress takes its next step; and Math.random() is fair: at each position
\* of the loop, a draw that can be made again and again is made at some time
SpecGenFair ==
    /\ GenFairInit
    /\ [][GenNext]_vars
    /\ WF_vars(\E i \in DrawIndices : GenDraw(i))
    /\ WF_vars(GenCheck)
    /\ \A k \in 0..(CodeLength - 1) : SF_vars(FairDraw(k))

\* C40: against a list that leaves a code unused, every call of generateShortCode
\* returns
C40_GeneratorTerminates ==
    (gen.pc = "loop" /\ \E code \in DrawnCodes : ~codeInUse(urls, code))
        ~> (gen.pc = "idle" /\ gen.returned # NoCode)

\* a second call has returned after it drew a code in use, against the list that holds
\* two of the codes the draws produce
C40_Witness ==
    /\ gen.pc = "idle" /\ gen.returned # NoCode /\ gen.previous # NoCode
    /\ gen.redrawn
    /\ codeInUse(urls, AllFirst) /\ codeInUse(urls, AllLast)

====
